---- MODULE Spec2Model ----
(***************************************************************************)
(* Model of package linear (ornerylawn/linear): dense matrices and vectors *)
(* with views, Householder reflections, the QR decomposition, the upper    *)
(* triangular solver and ordinary least squares.                           *)
(*                                                                         *)
(* Entries are float64.  The model computes with them as the machine does: *)
(* a finite nonzero value is sign * M * 2^e with a 53 bit significand M,   *)
(* and + - * / sqrt return the exact result rounded to nearest, ties to    *)
(* even.  The exponent is left unbounded (no overflow to infinity and no   *)
(* subnormals: neither is reachable from the inputs drawn here) and the    *)
(* two zeros are one value.  A division by zero yields NaN or an infinity, *)
(* as in Go.  Every operation is rounded on its own, as the amd64 build    *)
(* computes; a build that fuses x*y + z rounds once where this one rounds  *)
(* twice.                                                                  *)
(***************************************************************************)
EXTENDS Integers, Sequences, FiniteSets, TLC

(***************************************************************************)
(* float64.  The significand is kept as two limbs, M = h * 2^28 + l, with  *)
(* 2^24 <= h < 2^25 and 0 <= l < 2^28; wide intermediate results are four  *)
(* limbs of 28 bits, least significant first.                              *)
(***************************************************************************)
B14 == 128 * 128

B28 == B14 * B14

PowTable ==
    << 1, 2, 4, 8, 16, 32, 64, 128, 256, 512, 1024, 2048, 4096, 8192, 16384,
       32768, 65536, 131072, 262144, 524288, 1048576, 2097152, 4194304,
       8388608, 16777216, 33554432, 67108864, 134217728, 268435456,
       536870912, 1073741824 >>

Pow2(n) == PowTable[n + 1]

FZero == [k |-> "zero", s |-> 1, e |-> 0, h |-> 0, l |-> 0]

FNaN == [k |-> "nan", s |-> 1, e |-> 0, h |-> 0, l |-> 0]

FInf(s) == [k |-> "inf", s |-> s, e |-> 0, h |-> 0, l |-> 0]

Fin(s, e, h, l) == [k |-> "fin", s |-> s, e |-> e, h |-> h, l |-> l]

Limb(N, i) == IF i >= 1 /\ i <= 4 THEN N[i] ELSE 0

\* N shifted right by k bits (the low bits are dropped).
WShR(N, k) ==
    LET q == k \div 28
        r == k % 28
        lo == Pow2(r)
        hi == Pow2(28 - r)
    IN  [i \in 1..4 |-> (Limb(N, i + q) \div lo) + (Limb(N, i + q + 1) % lo) * hi]

\* N shifted left by k bits (the caller keeps the result below 2^112).
WShL(N, k) ==
    LET q == k \div 28
        r == k % 28
        lo == Pow2(r)
        hi == Pow2(28 - r)
    IN  [i \in 1..4 |-> (Limb(N, i - q) % hi) * lo + (Limb(N, i - q - 1) \div hi)]

IBitLen(x) == CHOOSE n \in 0..28 : Pow2(n) > x /\ (n = 0 \/ Pow2(n - 1) <= x)

WBitLen(N) ==
    IF N[4] > 0 THEN 84 + IBitLen(N[4])
    ELSE IF N[3] > 0 THEN 56 + IBitLen(N[3])
    ELSE IF N[2] > 0 THEN 28 + IBitLen(N[2])
    ELSE IBitLen(N[1])

WAdd(X, Y) ==
    LET t1 == X[1] + Y[1]
        t2 == X[2] + Y[2] + t1 \div B28
        t3 == X[3] + Y[3] + t2 \div B28
        t4 == X[4] + Y[4] + t3 \div B28
    IN  << t1 % B28, t2 % B28, t3 % B28, t4 >>

\* X - Y for X >= Y.
WSub(X, Y) ==
    LET t1 == X[1] - Y[1]
        b1 == IF t1 < 0 THEN 1 ELSE 0
        t2 == X[2] - Y[2] - b1
        b2 == IF t2 < 0 THEN 1 ELSE 0
        t3 == X[3] - Y[3] - b2
        b3 == IF t3 < 0 THEN 1 ELSE 0
        t4 == X[4] - Y[4] - b3
    IN  << t1 + b1 * B28, t2 + b2 * B28, t3 + b3 * B28, t4 >>

WGe(X, Y) ==
    IF X[4] # Y[4] THEN X[4] > Y[4]
    ELSE IF X[3] # Y[3] THEN X[3] > Y[3]
    ELSE IF X[2] # Y[2] THEN X[2] > Y[2]
    ELSE X[1] >= Y[1]

\* The exact product of two 53 bit significands.
WMul(ah, al, bh, bl) ==
    LET a0 == al % B14
        a1 == al \div B14
        a2 == ah % B14
        a3 == ah \div B14
        b0 == bl % B14
        b1 == bl \div B14
        b2 == bh % B14
        b3 == bh \div B14
        t0 == a0 * b0
        t1 == a0 * b1 + a1 * b0 + t0 \div B14
        t2 == a0 * b2 + a1 * b1 + a2 * b0 + t1 \div B14
        t3 == a0 * b3 + a1 * b2 + a2 * b1 + a3 * b0 + t2 \div B14
        t4 == a1 * b3 + a2 * b2 + a3 * b1 + t3 \div B14
        t5 == a2 * b3 + a3 * b2 + t4 \div B14
        t6 == a3 * b3 + t5 \div B14
        t7 == t6 \div B14
    IN  << (t1 % B14) * B14 + (t0 % B14), (t3 % B14) * B14 + (t2 % B14),
           (t5 % B14) * B14 + (t4 % B14), t7 * B14 + (t6 % B14) >>

\* The float of the 53 bit significand M.
FinOf(s, e, M) == Fin(s, e, M[2], M[1])

\* The significand h * 2^28 + l after rounding, which may have carried to 2^53.
Renormalize(s, e, h, l) ==
    IF h = Pow2(25) THEN Fin(s, e + 1, Pow2(24), 0) ELSE Fin(s, e, h, l)

\* The 53 bit M0 plus one when up.
RoundUp(s, e, M0, up) ==
    Renormalize(s, e, M0[2] + (M0[1] + (IF up THEN 1 ELSE 0)) \div B28,
                (M0[1] + (IF up THEN 1 ELSE 0)) % B28)

\* T is N without its k1 low bits: 53 bits and the rounding bit.  Up when
\* the rounding bit is set and either a dropped bit is or the result is odd.
RoundCut(s, e, N, k1, T) ==
    RoundUp(s, e, WShR(T, 1),
            T[1] % 2 = 1 /\ (WShL(T, k1) # N \/ T[1] % 4 >= 2))

\* N of L bits.
RoundBits(s, N, e, L) ==
    IF L = 0 THEN FZero
    ELSE IF L <= 53 THEN FinOf(s, e - (53 - L), WShL(N, 53 - L))
    ELSE RoundCut(s, e + (L - 53), N, L - 54, WShR(N, L - 54))

\* s * N * 2^e rounded to a float64: to nearest, ties to even.
RoundWide(s, N, e) == RoundBits(s, N, e, WBitLen(N))

FNeg(a) == IF a.k = "fin" \/ a.k = "inf" THEN [a EXCEPT !.s = -a.s] ELSE a

FAbs(a) == IF a.k = "fin" \/ a.k = "inf" THEN [a EXCEPT !.s = 1] ELSE a

FromInt(n) ==
    IF n = 0 THEN FZero
    ELSE IF n > 0 THEN RoundWide(1, << n, 0, 0, 0 >>, 0)
    ELSE RoundWide(-1, << -n, 0, 0, 0 >>, 0)

FMul(a, b) ==
    IF a.k = "nan" \/ b.k = "nan" THEN FNaN
    ELSE IF a.k = "inf" \/ b.k = "inf"
    THEN (IF a.k = "zero" \/ b.k = "zero" THEN FNaN ELSE FInf(a.s * b.s))
    ELSE IF a.k = "zero" \/ b.k = "zero" THEN FZero
    ELSE RoundWide(a.s * b.s, WMul(a.h, a.l, b.h, b.l), a.e + b.e)

\* sa * X + sb * Y, times 2^e.
FAddWide(sa, X, sb, Y, e) ==
    RoundWide(IF sa = sb \/ WGe(X, Y) THEN sa ELSE sb,
              IF sa = sb THEN WAdd(X, Y)
              ELSE IF WGe(X, Y) THEN WSub(X, Y) ELSE WSub(Y, X),
              e)

\* a + b for finite nonzero a and b with a.e >= b.e.
FAddFin(a, b) ==
    IF a.e - b.e > 55 THEN a
    ELSE FAddWide(a.s, WShL(<< a.l, a.h, 0, 0 >>, a.e - b.e), b.s,
                  << b.l, b.h, 0, 0 >>, b.e)

FAdd(a, b) ==
    IF a.k = "nan" \/ b.k = "nan" THEN FNaN
    ELSE IF a.k = "inf"
    THEN (IF b.k = "inf" /\ b.s # a.s THEN FNaN ELSE a)
    ELSE IF b.k = "inf" THEN b
    ELSE IF a.k = "zero" THEN b
    ELSE IF b.k = "zero" THEN a
    ELSE FAddFin(IF a.e >= b.e THEN a ELSE b, IF a.e >= b.e THEN b ELSE a)

FSub(a, b) == FAdd(a, FNeg(b))

\* Pairs << hi, lo >> with lo < 2^28 stand for hi * 2^28 + lo.
PGe(P, Q) == IF P[1] # Q[1] THEN P[1] > Q[1] ELSE P[2] >= Q[2]

PSub(P, Q) ==
    IF P[2] >= Q[2] THEN << P[1] - Q[1], P[2] - Q[2] >>
    ELSE << P[1] - Q[1] - 1, P[2] - Q[2] + B28 >>

\* c * P + d for small c and d.
PScale(P, c, d) ==
    LET t == c * P[2] + d
    IN  << c * P[1] + t \div B28, t % B28 >>

\* The pair of a wide number below 2^56, and the wide number of a pair.
PairOf(W) == << W[2], W[1] >>

WideOf(P) == << P[2], P[1], 0, 0 >>

\* The square of the pair T.
PSquare(T) == WMul(T[1], T[2], T[1], T[2])

\* The pair D times the digit q < 2^14, as a wide number.
WScale(D, q) ==
    LET p0 == (D[2] % B14) * q
        p1 == (D[2] \div B14) * q + p0 \div B14
        p2 == (D[1] % B14) * q + p1 \div B14
        p3 == (D[1] \div B14) * q + p2 \div B14
    IN  << (p1 % B14) * B14 + (p0 % B14), (p3 % B14) * B14 + (p2 % B14),
           p3 \div B14, 0 >>

\* << q, R14 - q * D >>
DivTake(D, R14, q) == << q, PairOf(WSub(R14, WScale(D, q))) >>

\* The quotient digit of R14 by D, given an estimate at most 2 above it
\* (Knuth, algorithm D).
DivDigit(D, R14, qhat) ==
    DivTake(D, R14, IF WGe(R14, WScale(D, qhat)) THEN qhat
                    ELSE IF WGe(R14, WScale(D, qhat - 1)) THEN qhat - 1
                    ELSE qhat - 2)

\* One step of long division in base 2^14, for R < D and D of 56 bits:
\* << q, R * 2^14 - q * D >> with q the next quotient digit, estimated from
\* the leading digits.
DivStep(R, D) ==
    DivDigit(D,
             << (R[2] % B14) * B14, (R[1] % B14) * B14 + R[2] \div B14,
                R[1] \div B14, 0 >>,
             IF R[1] \div (D[1] \div B14) >= B14 THEN B14 - 1
             ELSE R[1] \div (D[1] \div B14))

\* The quotient q0 hi lo of 57 bits, doubled, plus the sticky bit st.
DivRound(s, e, q0, hi, lo, st) ==
    RoundWide(s, << 2 * (lo % (B28 \div 2)) + st,
                    2 * (hi % (B28 \div 2)) + lo \div (B28 \div 2),
                    2 * q0 + hi \div (B28 \div 2), 0 >>, e)

DivStep4(s, e, q0, hi, q3, s4) ==
    DivRound(s, e, q0, hi, q3 * B14 + s4[1], IF s4[2] = << 0, 0 >> THEN 0 ELSE 1)

DivStep3(s, e, D, q0, hi, s3) ==
    DivStep4(s, e, q0, hi, s3[1], DivStep(s3[2], D))

DivStep2(s, e, D, q0, q1, s1) ==
    DivStep3(s, e, D, q0, q1 * B14 + s1[1], DivStep(s1[2], D))

DivStep1(s, e, D, q0, s0) ==
    DivStep2(s, e, D, q0, s0[1], DivStep(s0[2], D))

\* s * (A / D) * 2^(e + 57) for pairs A and D of 56 bits with A < 2 * D.
DivFin(s, e, A, D) ==
    DivStep1(s, e, D, IF PGe(A, D) THEN 1 ELSE 0,
             DivStep(IF PGe(A, D) THEN PSub(A, D) ELSE A, D))

FDiv(a, b) ==
    IF a.k = "nan" \/ b.k = "nan" THEN FNaN
    ELSE IF a.k = "inf"
    THEN (IF b.k = "inf" THEN FNaN ELSE FInf(a.s * b.s))
    ELSE IF b.k = "inf" THEN FZero
    ELSE IF b.k = "zero"
    THEN (IF a.k = "zero" THEN FNaN ELSE FInf(a.s))
    ELSE IF a.k = "zero" THEN FZero
    ELSE DivFin(a.s * b.s, a.e - b.e - 57, PScale(<< a.h, a.l >>, 8, 0),
                PScale(<< b.h, b.l >>, 8, 0))

\* t / 2 for finite t.
Half(t) == [t EXCEPT !.e = @ - 1]

\* (y + a / y) / 2
NewtonStep(a, y) == Half(FAdd(y, FDiv(a, y)))

\* (s + t \div s) \div 2
INewtonStep(t, s) == (s + t \div s) \div 2

\* C fits when (2C - 1)^2 < N4 < (2C + 1)^2.
SqrtFits(C, N4) ==
    /\ ~WGe(PSquare(PScale(C, 2, -1)), N4)
    /\ ~WGe(N4, PSquare(PScale(C, 2, 1)))

SqrtRound(ec, C) == RoundWide(1, WideOf(C), ec)

\* The one of Cy - 2 .. Cy + 2 that fits.
SqrtPick(ec, N4, Cy) ==
    SqrtRound(ec, PScale(Cy, 1,
                  (CHOOSE c \in 0..4 : SqrtFits(PScale(Cy, 1, c - 2), N4)) - 2))

\* The estimate y as a significand with exponent ec.
SqrtNear(ec, N4, y) ==
    SqrtPick(ec, N4,
             IF y.e = ec THEN << y.h, y.l >>
             ELSE IF y.e = ec + 1 THEN PScale(<< y.h, y.l >>, 2, 0)
             ELSE << y.h \div 2, (y.h % 2) * (B28 \div 2) + y.l \div 2 >>)

\* The square root of a = P * 2^(2 * (ec + 26)): Newton's iteration from a
\* 12 bit estimate, then the neighbour that rounds correctly.
SqrtScaled(a, P, ec) ==
    SqrtNear(ec, WShL(WideOf(P), 54),
             NewtonStep(a, NewtonStep(a, NewtonStep(a,
                 RoundWide(1, << INewtonStep(P[1], INewtonStep(P[1],
                                     INewtonStep(P[1], 6144))), 0, 0, 0 >>,
                           ec + 40)))))

\* The correctly rounded square root.
FSqrt(a) ==
    IF a.k = "nan" THEN FNaN
    ELSE IF a.k = "zero" THEN FZero
    ELSE IF a.s < 0 THEN FNaN
    ELSE IF a.k = "inf" THEN a
    ELSE SqrtScaled(a,
                    IF (a.e % 2) = 1 THEN PScale(<< a.h, a.l >>, 2, 0)
                    ELSE << a.h, a.l >>,
                    (a.e - (a.e % 2)) \div 2 - 26)

\* a < b; false when either is NaN.
FLess(a, b) ==
    LET sa == IF a.k = "zero" THEN 0 ELSE a.s
        sb == IF b.k = "zero" THEN 0 ELSE b.s
        magLess(x, y) ==
            IF x.k = "inf" THEN FALSE
            ELSE IF y.k = "inf" THEN TRUE
            ELSE IF x.e # y.e THEN x.e < y.e
            ELSE IF x.h # y.h THEN x.h < y.h
            ELSE x.l < y.l
    IN  IF a.k = "nan" \/ b.k = "nan" THEN FALSE
        ELSE IF sa # sb THEN sa < sb
        ELSE IF sa = 0 THEN FALSE
        ELSE IF sa > 0 THEN magLess(a, b)
        ELSE magLess(b, a)

\* a != 0.0 (true of NaN).
FNonZero(a) == a.k # "zero"

\* The literal 1e-9 as a float64: 0x1.12e0be826d695p-30.
E9 == Fin(1, -82, 18014398, 136763029)

(***************************************************************************)
(* Matrices and vectors.  A dense matrix keeps its entries in one array,   *)
(* entry (in, out) at out*ins + in.  A view holds the matrix it reads and  *)
(* writes; a write through a view yields the view over the written parent. *)
(***************************************************************************)
NewArrayMatrix(ins, outs) ==
    [kind |-> "array", ins |-> ins, outs |-> outs,
     array |-> [n \in 1..(outs * ins) |-> FZero]]

Slice(A, inLo, inHi, outLo, outHi) ==
    [kind |-> "slice", A |-> A, inLo |-> inLo, inHi |-> inHi,
     outLo |-> outLo, outHi |-> outHi]

Dual(A) == [kind |-> "dual", A |-> A]

RECURSIVE Shape(_)
\* << ins, outs >>
Shape(M) ==
    IF M.kind = "array" THEN << M.ins, M.outs >>
    ELSE IF M.kind = "slice" THEN << M.inHi - M.inLo, M.outHi - M.outLo >>
    ELSE << Shape(M.A)[2], Shape(M.A)[1] >>

\* sliceMatrix.checkBounds panics exactly when this holds.
checkBounds(S, in, out) ==
    in < 0 \/ in > S.inHi - S.inLo \/ out < 0 \/ out > S.outHi - S.outLo

RECURSIVE AccessError(_, _, _)
\* The panic that Get and Set of M end with at (in, out), "none" without
\* one: checkBounds of a slice, and the index check that the Go runtime makes
\* on the array, which looks at out*ins + in alone.
AccessError(M, in, out) ==
    IF M.kind = "array"
    THEN IF out * M.ins + in < 0 \/ out * M.ins + in >= Len(M.array)
         THEN "index out of range" ELSE "none"
    ELSE IF M.kind = "slice"
    THEN IF checkBounds(M, in, out) THEN "out of bounds"
         ELSE AccessError(M.A, M.inLo + in, M.outLo + out)
    ELSE AccessError(M.A, out, in)

RECURSIVE Get(_, _, _)
\* Get with the dual reading (in, out) of its parent.
GetUntransposed(M, in, out) ==
    IF M.kind = "array" THEN M.array[out * M.ins + in + 1]
    ELSE IF M.kind = "slice" THEN Get(M.A, M.inLo + in, M.outLo + out)
    ELSE Get(M.A, in, out)

Get(M, in, out) ==
    IF M.kind = "array" THEN M.array[out * M.ins + in + 1]
    ELSE IF M.kind = "slice" THEN Get(M.A, M.inLo + in, M.outLo + out)
    ELSE Get(M.A, out, in)

RECURSIVE Set(_, _, _, _)
\* Set with the slice writing (in, out) of its parent.
SetUnshifted(M, in, out, value) ==
    IF M.kind = "array" THEN [M EXCEPT !.array[out * M.ins + in + 1] = value]
    ELSE IF M.kind = "slice" THEN [M EXCEPT !.A = Set(M.A, in, out, value)]
    ELSE [M EXCEPT !.A = Set(M.A, out, in, value)]

\* Set with the array written at in*outs + out.
SetByColumn(M, in, out, value) ==
    IF M.kind = "array" THEN [M EXCEPT !.array[in * M.outs + out + 1] = value]
    ELSE IF M.kind = "slice"
    THEN [M EXCEPT !.A = Set(M.A, M.inLo + in, M.outLo + out, value)]
    ELSE [M EXCEPT !.A = Set(M.A, out, in, value)]

Set(M, in, out, value) ==
    IF M.kind = "array" THEN [M EXCEPT !.array[out * M.ins + in + 1] = value]
    ELSE IF M.kind = "slice"
    THEN [M EXCEPT !.A = Set(M.A, M.inLo + in, M.outLo + out, value)]
    ELSE [M EXCEPT !.A = Set(M.A, out, in, value)]

NewArrayVector(dims) == [kind |-> "array", array |-> [n \in 1..dims |-> FZero]]

\* The panic of VectorFromColumn(A), "none" without one.
VectorFromColumnError(A) ==
    IF Shape(A)[1] # 1 THEN "can't make vector from matrix" ELSE "none"

\* What VectorFromColumn(A) returns when it does not panic.
VectorFromColumn(A) == [kind |-> "column", A |-> A]

\* The panic of VectorFromRow(A), "none" without one.
VectorFromRowError(A) ==
    IF Shape(A)[2] # 1 THEN "can't make vector from matrix" ELSE "none"

\* VectorFromRow that keeps the first column.
VectorFromRowAsColumn(A) == [kind |-> "column", A |-> A]

\* What VectorFromRow(A) returns when it does not panic.
VectorFromRow(A) == [kind |-> "row", A |-> A]

Dimension(v) ==
    IF v.kind = "array" THEN Len(v.array)
    ELSE IF v.kind = "column" THEN Shape(v.A)[2]
    ELSE Shape(v.A)[1]

\* The panic that Get and Set of v end with at d, "none" without one.
VecAccessError(v, d) ==
    IF v.kind = "array"
    THEN IF d < 0 \/ d >= Len(v.array) THEN "index out of range" ELSE "none"
    ELSE IF v.kind = "column" THEN AccessError(v.A, 0, d)
    ELSE AccessError(v.A, d, 0)

VecGet(v, d) ==
    IF v.kind = "array" THEN v.array[d + 1]
    ELSE IF v.kind = "column" THEN Get(v.A, 0, d)
    ELSE Get(v.A, d, 0)

VecSet(v, d, value) ==
    IF v.kind = "array" THEN [v EXCEPT !.array[d + 1] = value]
    ELSE IF v.kind = "column" THEN [v EXCEPT !.A = Set(v.A, 0, d, value)]
    ELSE [v EXCEPT !.A = Set(v.A, d, 0, value)]

BasisVector(dim, index) == VecSet(NewArrayVector(dim), index, FromInt(1))

RECURSIVE SumLoop(_, _, _, _)
\* for k := lo; k < hi; k++ { acc += F(k) }
SumLoop(F(_), k, hi, acc) ==
    IF k >= hi THEN acc ELSE SumLoop(F, k + 1, hi, FAdd(acc, F(k)))

\* The array f with its entries computed: a function constructor is kept
\* unevaluated by TLC until it is compared, and an entry of an unevaluated
\* one is computed again at every read.
Stored(f) == IF f = f THEN f ELSE f

RECURSIVE Underlying(_)
\* The array matrix that the views over M end in.
Underlying(M) == IF M.kind = "array" THEN M ELSE Underlying(M.A)

RECURSIVE Rebase(_, _)
\* M as a view of the array matrix base.
Rebase(M, base) ==
    IF M.kind = "array" THEN base ELSE [M EXCEPT !.A = Rebase(M.A, base)]

RECURSIVE Offset(_, _, _)
\* The index in the underlying array that Get and Set of M reach for (in, out).
Offset(M, in, out) ==
    IF M.kind = "array" THEN out * M.ins + in + 1
    ELSE IF M.kind = "slice" THEN Offset(M.A, M.inLo + in, M.outLo + out)
    ELSE Offset(M.A, out, in)

\* for o := 0; o < outs; o++ { for i := 0; i < ins; i++ { dst.Set(i, o, F(i, o)) } }
\* Each entry is written once, and what F reads is not written by the loop
\* before it is read, so the writes are independent of their order.
SetLoop(F(_, _), dst, ins, outs) ==
    LET base == Underlying(dst)
        cells == (0..(ins - 1)) \X (0..(outs - 1))
        written(slot) == {cell \in cells : Offset(dst, cell[1], cell[2]) = slot}
        value(cell) == F(cell[1], cell[2])
    IN  Rebase(dst, [base EXCEPT !.array =
                        Stored([slot \in DOMAIN base.array |->
                            IF written(slot) = {} THEN base.array[slot]
                            ELSE value(CHOOSE cell \in written(slot) : TRUE)])])

\* IsZero that finds a nonzero entry in every matrix.
IsZeroNever(A) == FALSE

IsZero(A) ==
    \A o \in 0..(Shape(A)[2] - 1) : \A i \in 0..(Shape(A)[1] - 1) :
        ~FNonZero(Get(A, i, o))

\* CopyInto that hands back src in place of the dst it was to write.
CopyIntoShares(src, dst) == [err |-> "none", dst |-> src]

CopyInto(src, dst) ==
    IF Shape(dst) # Shape(src) THEN [err |-> "dimension mismatch", dst |-> dst]
    ELSE [err |-> "none",
          dst |-> SetLoop(LAMBDA i, o : Get(src, i, o), dst,
                          Shape(src)[1], Shape(src)[2])]

RECURSIVE CopyIntoNext(_, _, _)
\* The loops of CopyInto from the Set number n on, when dst is a view of the
\* matrix that src is a view of: a Get reads what the Sets before it wrote.
CopyIntoNext(src, dst, n) ==
    IF n >= Shape(src)[1] * Shape(src)[2] THEN dst
    ELSE CopyIntoNext(src,
                      Set(dst, n % Shape(src)[1], n \div Shape(src)[1],
                          Get(Rebase(src, Underlying(dst)),
                              n % Shape(src)[1], n \div Shape(src)[1])),
                      n + 1)

\* CopyInto(src, dst) when dst is a view of the matrix that src is a view of.
CopyIntoAliased(src, dst) ==
    IF Shape(dst) # Shape(src) THEN [err |-> "dimension mismatch", dst |-> dst]
    ELSE [err |-> "none", dst |-> CopyIntoNext(src, dst, 0)]

\* Copy that returns a slice of A in place of a new matrix.
CopyAsView(A) == Slice(A, 0, Shape(A)[1], 0, Shape(A)[2])

Copy(A) == CopyInto(A, NewArrayMatrix(Shape(A)[1], Shape(A)[2])).dst

IdentityInto(dst) ==
    IF Shape(dst)[1] # Shape(dst)[2] THEN [err |-> "dimension mismatch", dst |-> dst]
    ELSE [err |-> "none",
          dst |-> SetLoop(LAMBDA i, o : IF i = o THEN FromInt(1) ELSE FZero,
                          dst, Shape(dst)[1], Shape(dst)[2])]

RECURSIVE IdentityDiagonal(_, _, _)
\* for i := 0; i < dim; i++ { I.Set(i, i, 1) }
IdentityDiagonal(I, dim, i) ==
    IF i >= dim THEN I ELSE IdentityDiagonal(Set(I, i, i, FromInt(1)), dim, i + 1)

\* Identity without the loop that sets the diagonal.
IdentityUnset(dim) == NewArrayMatrix(dim, dim)

Identity(dim) == IdentityDiagonal(NewArrayMatrix(dim, dim), dim, 0)

\* ComposeInto with the sum begun at k = 1.
ComposeIntoFromOne(A, B, dst) ==
    IF Shape(A)[2] # Shape(B)[1] THEN [err |-> "dimension mismatch", dst |-> dst]
    ELSE [err |-> "none",
          dst |-> SetLoop(LAMBDA i, o :
                              SumLoop(LAMBDA k : FMul(Get(A, i, k), Get(B, k, o)),
                                      1, Shape(A)[2], FZero),
                          dst, Shape(A)[1], Shape(B)[2])]

RECURSIVE ComposeIntoNext(_, _, _, _)
\* The loops of ComposeInto from the Set number n on, one Set after the
\* other: a Set that dst refuses ends the call, and what the Sets before it
\* wrote stays written.
ComposeIntoNext(A, B, dst, n) ==
    IF n >= Shape(A)[1] * Shape(B)[2] THEN [err |-> "none", dst |-> dst]
    ELSE IF AccessError(dst, n % Shape(A)[1], n \div Shape(A)[1]) # "none"
    THEN [err |-> AccessError(dst, n % Shape(A)[1], n \div Shape(A)[1]), dst |-> dst]
    ELSE ComposeIntoNext(A, B,
             Set(dst, n % Shape(A)[1], n \div Shape(A)[1],
                 SumLoop(LAMBDA k : FMul(Get(A, n % Shape(A)[1], k),
                                         Get(B, k, n \div Shape(A)[1])),
                         0, Shape(A)[2], FZero)),
             n + 1)

\* ComposeInto does not look at the shape of dst: for a dst of the shape of
\* the product all the Sets are taken at once, for another dst one by one.
ComposeInto(A, B, dst) ==
    IF Shape(A)[2] # Shape(B)[1] THEN [err |-> "dimension mismatch", dst |-> dst]
    ELSE IF Shape(dst) # << Shape(A)[1], Shape(B)[2] >>
    THEN ComposeIntoNext(A, B, dst, 0)
    ELSE [err |-> "none",
          dst |-> SetLoop(LAMBDA i, o :
                              SumLoop(LAMBDA k : FMul(Get(A, i, k), Get(B, k, o)),
                                      0, Shape(A)[2], FZero),
                          dst, Shape(A)[1], Shape(B)[2])]

Compose(A, B) == ComposeInto(A, B, NewArrayMatrix(Shape(A)[1], Shape(B)[2]))

\* ApplyToMatrixInto with A and X passed on in the order they were given.
ApplyToMatrixIntoUnswapped(A, X, dst) == ComposeInto(A, X, dst)

ApplyToMatrixInto(A, X, dst) == ComposeInto(X, A, dst)

ApplyToMatrix(A, X) ==
    ApplyToMatrixInto(A, X, NewArrayMatrix(Shape(X)[1], Shape(A)[2]))

\* for d := 0; d < dim; d++ { dst.Set(d, G(d)) }
VecSetLoop(G(_), dst, dim) ==
    IF dst.kind = "array"
    THEN [dst EXCEPT !.array = Stored([slot \in DOMAIN dst.array |->
                                   IF slot - 1 < dim THEN G(slot - 1)
                                   ELSE dst.array[slot]])]
    ELSE IF dst.kind = "column"
    THEN LET value(row, col) == G(col)
         IN  [dst EXCEPT !.A = SetLoop(value, dst.A, 1, dim)]
    ELSE LET value(row, col) == G(row)
         IN  [dst EXCEPT !.A = SetLoop(value, dst.A, dim, 1)]

\* ApplyToVectorInto with the sum begun at i = 1.
ApplyToVectorIntoFromOne(A, x, dst) ==
    IF Dimension(x) # Shape(A)[1] THEN [err |-> "dimension mismatch", dst |-> dst]
    ELSE IF Dimension(dst) # Shape(A)[2]
    THEN [err |-> "dimension mismatch", dst |-> dst]
    ELSE [err |-> "none",
          dst |-> VecSetLoop(LAMBDA o :
                                 SumLoop(LAMBDA i : FMul(Get(A, i, o), VecGet(x, i)),
                                         1, Shape(A)[1], FZero),
                             dst, Shape(A)[2])]

ApplyToVectorInto(A, x, dst) ==
    IF Dimension(x) # Shape(A)[1] THEN [err |-> "dimension mismatch", dst |-> dst]
    ELSE IF Dimension(dst) # Shape(A)[2]
    THEN [err |-> "dimension mismatch", dst |-> dst]
    ELSE [err |-> "none",
          dst |-> VecSetLoop(LAMBDA o :
                                 SumLoop(LAMBDA i : FMul(Get(A, i, o), VecGet(x, i)),
                                         0, Shape(A)[1], FZero),
                             dst, Shape(A)[2])]

ApplyToVector(A, x) ==
    IF Dimension(x) # Shape(A)[1]
    THEN [err |-> "this matrix cannot be applied", dst |-> NewArrayVector(0)]
    ELSE ApplyToVectorInto(A, x, NewArrayVector(Shape(A)[2]))

L2Norm(v) ==
    FSqrt(SumLoop(LAMBDA d : FMul(VecGet(v, d), VecGet(v, d)), 0, Dimension(v), FZero))

NormalizeInto(src, dst) ==
    IF Dimension(dst) # Dimension(src) THEN [err |-> "dimension mismatch", dst |-> dst]
    ELSE LET mag == L2Norm(src)
         IN  [err |-> "none",
              dst |-> VecSetLoop(LAMBDA d : FDiv(VecGet(src, d), mag), dst,
                                 Dimension(src))]

Normalize(v) == NormalizeInto(v, NewArrayVector(Dimension(v))).dst

(***************************************************************************)
(* The solver, the reflection, the decomposition and least squares.  Each  *)
(* returns the message of its panic in err, "none" when it returns.        *)
(***************************************************************************)
\* dot after the inner loop for i := o + 1; i < ins; i++.
Dot(A, x, o) ==
    SumLoop(LAMBDA i : FMul(VecGet(x, i), Get(A, i, o)), o + 1, Shape(A)[1], FZero)

\* SolveEntry with numer := b.Get(o) + dot.
SolveEntryAdded(A, b, x, o) ==
    FDiv(FAdd(VecGet(b, o), Dot(A, x, o)), Get(A, o, o))

\* SolveEntry with b read from its end: row o takes b(o + outs - ins).
SolveEntryFromEnd(A, b, x, o) ==
    FDiv(FSub(VecGet(b, o + Dimension(b) - Shape(A)[1]), Dot(A, x, o)), Get(A, o, o))

\* numer / denom for row o.
SolveEntry(A, b, x, o) ==
    FDiv(FSub(VecGet(b, o), Dot(A, x, o)), Get(A, o, o))

\* TooSmall without math.Abs.
TooSmallSigned(denom) == FLess(denom, E9)

\* math.Abs(denom) < 1e-9
TooSmall(denom) == FLess(FAbs(denom), E9)

RECURSIVE BackSubstitutionUndone(_, _, _, _)
\* BackSubstitution that gives x back as it was when a later pivot fails.
BackSubstitutionUndone(A, b, x, o) ==
    IF o < 0 THEN [err |-> "none", x |-> x]
    ELSE IF TooSmall(Get(A, o, o))
    THEN [err |-> "entry is too small for stability", x |-> x]
    ELSE IF BackSubstitutionUndone(A, b, VecSet(x, o, SolveEntry(A, b, x, o)),
                                   o - 1).err = "none"
    THEN BackSubstitutionUndone(A, b, VecSet(x, o, SolveEntry(A, b, x, o)), o - 1)
    ELSE [err |-> "entry is too small for stability", x |-> x]

RECURSIVE BackSubstitution(_, _, _, _)
\* The loop for o := ins - 1; o >= 0; o--, from o on.
BackSubstitution(A, b, x, o) ==
    IF o < 0 THEN [err |-> "none", x |-> x]
    ELSE IF TooSmall(Get(A, o, o))
    THEN [err |-> "entry is too small for stability", x |-> x]
    ELSE BackSubstitution(A, b, VecSet(x, o, SolveEntry(A, b, x, o)), o - 1)

\* FindInputToUpperTriangularInto with the loop that looks for a nonzero
\* below the diagonal moved after the back substitution.
FindInputToUpperTriangularIntoLate(A, b, x) ==
    IF Shape(A)[2] < Shape(A)[1]
    THEN [err |-> "can't solve upper triangular with less outs than ins", x |-> x]
    ELSE IF Dimension(b) # Shape(A)[2]
    THEN [err |-> "expected b to have same dims as A has outs", x |-> x]
    ELSE IF Dimension(x) # Shape(A)[1]
    THEN [err |-> "dimension mismatch", x |-> x]
    ELSE IF \E i \in 0..(Shape(A)[1] - 1) : \E o \in (i + 1)..(Shape(A)[2] - 1) :
                FNonZero(Get(A, i, o))
    THEN [err |-> "expected upper triangular but found nonzero",
          x |-> BackSubstitution(A, b, x, Shape(A)[1] - 1).x]
    ELSE BackSubstitution(A, b, x, Shape(A)[1] - 1)

FindInputToUpperTriangularInto(A, b, x) ==
    LET ins == Shape(A)[1]
        outs == Shape(A)[2]
    IN  IF outs < ins
        THEN [err |-> "can't solve upper triangular with less outs than ins", x |-> x]
        ELSE IF Dimension(b) # outs
        THEN [err |-> "expected b to have same dims as A has outs", x |-> x]
        ELSE IF Dimension(x) # ins
        THEN [err |-> "dimension mismatch", x |-> x]
        ELSE IF \E i \in 0..(ins - 1) : \E o \in (i + 1)..(outs - 1) :
                    FNonZero(Get(A, i, o))
        THEN [err |-> "expected upper triangular but found nonzero", x |-> x]
        ELSE BackSubstitution(A, b, x, ins - 1)

FindInputToUpperTriangular(A, b) ==
    FindInputToUpperTriangularInto(A, b, NewArrayVector(Shape(A)[1]))

\* denom < 1e-9, the test of SolveUpperTriangular in linear.go.
BelowThreshold(denom) == FLess(denom, E9)

RECURSIVE SolveBackSubstitution(_, _, _, _)
\* The loop for o := ins - 1; o >= 0; o-- of SolveUpperTriangular, from o on.
SolveBackSubstitution(A, b, x, o) ==
    IF o < 0 THEN [err |-> "none", x |-> x]
    ELSE IF BelowThreshold(Get(A, o, o))
    THEN [err |-> "entry is too small for stability", x |-> x]
    ELSE SolveBackSubstitution(A, b, VecSet(x, o, SolveEntry(A, b, x, o)), o - 1)

\* SolveUpperTriangular of linear.go; x is the vector it allocates.
SolveUpperTriangular(A, b) ==
    LET ins == Shape(A)[1]
        outs == Shape(A)[2]
    IN  IF outs < ins
        THEN [err |-> "can't solve upper triangular with less outs than ins",
              x |-> NewArrayVector(0)]
        ELSE IF Dimension(b) # outs
        THEN [err |-> "expected b to have same dims as A has outs",
              x |-> NewArrayVector(0)]
        ELSE IF \E i \in 0..(ins - 1) : \E o \in (i + 1)..(outs - 1) :
                    FNonZero(Get(A, i, o))
        THEN [err |-> "expected upper triangular but found nonzero",
              x |-> NewArrayVector(0)]
        ELSE SolveBackSubstitution(A, b, NewArrayVector(ins), ins - 1)

\* Reflection with the 2 left out: H = I - v v^T.
ReflectionHalved(v, I, dim) ==
    SetLoop(LAMBDA i, o : FSub(Get(I, i, o), FMul(VecGet(v, o), VecGet(v, i))),
            I, dim, dim)

\* The second loop of HouseholderInto: H = I - 2 v v^T, written over I.
Reflection(v, I, dim) ==
    SetLoop(LAMBDA i, o :
                FSub(Get(I, i, o), FMul(FMul(FromInt(2), VecGet(v, o)), VecGet(v, i))),
            I, dim, dim)

\* Sign without the test of x0.
SignPositive(x0) == FromInt(1)

\* x0sign in HouseholderInto.
Sign(x0) == IF FLess(x0, FZero) THEN FromInt(-1) ELSE FromInt(1)

\* The first loop of HouseholderInto: u = x + x0sign * xmag * e.
ReflectionAxis(x, e, xmag, x0sign, dim) ==
    VecSetLoop(LAMBDA d : FAdd(VecGet(x, d), FMul(FMul(x0sign, xmag), VecGet(e, d))),
               NewArrayVector(dim), dim)

HouseholderInto(x, e, H) ==
    IF \/ Dimension(e) # Dimension(x)
       \/ Shape(H)[1] # Shape(H)[2]
       \/ Shape(H)[1] # Dimension(x)
    THEN [err |-> "dimension mismatch", H |-> H]
    ELSE [err |-> "none",
          H |-> Reflection(Normalize(ReflectionAxis(x, e, L2Norm(x), Sign(VecGet(x, 0)),
                                                    Dimension(x))),
                           IdentityInto(H).dst, Dimension(x))]

Householder(x, e) == HouseholderInto(x, e, Identity(Dimension(x)))

\* ApplyReflection with the arguments of Compose exchanged.
ApplyReflectionReversed(H, tmpQ, tmpR) ==
    << Compose(tmpQ, Dual(H)).dst, ApplyToMatrix(H, tmpR).dst >>

\* ApplyReflection without the assignment to tmpR.
ApplyReflectionKeepsR(H, tmpQ, tmpR) == << Compose(Dual(H), tmpQ).dst, tmpR >>

\* tmpQ and tmpR after the reflection H of column i: << tmpQ, tmpR >>.
ApplyReflection(H, tmpQ, tmpR) ==
    << Compose(Dual(H), tmpQ).dst, ApplyToMatrix(H, tmpR).dst >>

\* ColumnReflection onto the last basis vector instead of the first.
ColumnReflectionLast(x, I) ==
    HouseholderInto(x, BasisVector(Dimension(x), Dimension(x) - 1), I).H.A

\* The H of one pass of the loop of DecomposeIntoQR: the reflection of x
\* onto the first basis vector, written into the slice I of an identity.
ColumnReflection(x, I) ==
    HouseholderInto(x, BasisVector(Dimension(x), 0), I).H.A

\* TrailingBlock at the other end of the diagonal.
LeadingBlock(H, i, outs) == Slice(H, 0, outs - i, 0, outs - i)

\* The block of H that HouseholderInto is given for column i.
TrailingBlock(H, i, outs) == Slice(H, i, outs, i, outs)

\* SubDiagonal from the diagonal entry on.
SubDiagonalWithPivot(tmpR, i, outs) == Slice(tmpR, i, i + 1, i, outs)

\* sub: the entries of column i below the diagonal.
SubDiagonal(tmpR, i, outs) == Slice(tmpR, i, i + 1, i + 1, outs)

\* tmpQ and tmpR after the reflection H, and H: << tmpQ, tmpR, H >>.
Reflect(H, tmpQ, tmpR) == ApplyReflection(H, tmpQ, tmpR) \o << H >>

\* One pass of the loop of DecomposeIntoQR, for column i: << tmpQ, tmpR, H >>,
\* where H is the reflection made, and the empty matrix when the pass made
\* none.
DecomposeIteration(tmpQ, tmpR, i, outs) ==
    IF IsZero(SubDiagonal(tmpR, i, outs))
    THEN << tmpQ, tmpR, NewArrayMatrix(0, 0) >>
    ELSE Reflect(ColumnReflection(VectorFromColumn(Slice(tmpR, i, i + 1, i, outs)),
                                  TrailingBlock(Identity(outs), i, outs)),
                 tmpQ, tmpR)

\* The panic of DecomposeIntoQR's shape checks, "none" when they pass.
DecomposeShapeCheck(A, Q, R) ==
    IF Shape(Q) # << Shape(A)[2], Shape(A)[2] >> \/ Shape(R) # Shape(A)
    THEN "expected shape" ELSE "none"

(***************************************************************************)
(* The calls.  A state holds one call of one operation: its arguments, the *)
(* locals of DecomposeIntoQR's loop, and what the call returned or the     *)
(* panic it ended with.  Where a matrix is made and then read and written  *)
(* through it and through its views, a state holds the matrix, the views,  *)
(* and the last Get or Set.                                                *)
(***************************************************************************)
VARIABLES
    op,         \* the operation called
    pc,         \* "call" before it runs, "loop" inside DecomposeIntoQR, "solve"
                \* after it in OrdinaryLeastSquares, "done" at the end
    err,        \* the panic the call ended with, "none" without one
    A, B, dst,  \* matrix arguments, and the matrix or vector written or returned
    b, x,       \* FindInputToUpperTriangular's b and x; Householder's x
    e, H,       \* Householder's e and H; H is the reflection of the last
                \* iteration of DecomposeIntoQR's loop as well
    Q, R,       \* the factors DecomposeQR returns
    tmpQ, tmpR, i,  \* DecomposeIntoQR's locals
    X, y, theta,    \* OrdinaryLeastSquares's arguments; the theta y was built from
    at, value,  \* the index and the value of the last Get or Set; at is the
                \* argument of Identity as well
    calls       \* the number of Sets made

vars ==
    << op, pc, err, A, B, dst, b, x, e, H, Q, R, tmpQ, tmpR, i, X, y, theta,
       at, value, calls >>

\* Entries of the inputs are integers of magnitude at most MaxEntry.
MaxEntry == 2

\* Outs, ins and dimensions of the inputs are at most MaxOuts.
MaxOuts == 3

\* The inputs of each shape are numbered 0..MaxSeed.
MaxSeed == 11

\* A matrix or a vector that is made is written at most MaxCalls times.
MaxCalls == 2

\* The entry (in, out) of input number seed.
Entry(seed, in, out) ==
    (((seed + 1) * (2 * in + 3 * out + 1) + (seed \div 3) * (in + 1) * (out + 2))
        % (2 * MaxEntry + 1)) - MaxEntry

\* Input number seed of shape (ins, outs); upper triangular when tri.
InputMatrix(seed, ins, outs, tri) ==
    [kind |-> "array", ins |-> ins, outs |-> outs,
     array |-> [n \in 1..(outs * ins) |->
                   IF tri /\ ((n - 1) \div ins) > ((n - 1) % ins) THEN FZero
                   ELSE FromInt(Entry(seed, (n - 1) % ins, (n - 1) \div ins))]]

InputVector(seed, dim) ==
    [kind |-> "array", array |-> [n \in 1..dim |-> FromInt(Entry(seed, n - 1, 0))]]

\* NewArrayMatrix followed by one Set for each entry, given out by out.
MatrixOf(ins, outs, entries) ==
    [kind |-> "array", ins |-> ins, outs |-> outs,
     array |-> [n \in 1..(outs * ins) |-> FromInt(entries[n])]]

VectorOf(entries) ==
    [kind |-> "array", array |-> [n \in 1..Len(entries) |-> FromInt(entries[n])]]

\* The matrix of TestHouseholderInto and TestDecomposeQR.
TestDecomposeQRMatrix == MatrixOf(3, 3, << 12, -51, 4, 6, 167, -68, -4, 24, -41 >>)

NoMatrix == NewArrayMatrix(0, 0)

NoVector == NewArrayVector(0)

\* True in the states where no variable outside keep has been assigned.
Unused(keep) ==
    /\ "A" \in keep \/ A = NoMatrix
    /\ "B" \in keep \/ B = NoMatrix
    /\ "dst" \in keep \/ dst = NoMatrix
    /\ "b" \in keep \/ b = NoVector
    /\ "x" \in keep \/ x = NoVector
    /\ "e" \in keep \/ e = NoVector
    /\ "H" \in keep \/ H = NoMatrix
    /\ "Q" \in keep \/ Q = NoMatrix
    /\ "R" \in keep \/ R = NoMatrix
    /\ "tmpQ" \in keep \/ tmpQ = NoMatrix
    /\ "tmpR" \in keep \/ tmpR = NoMatrix
    /\ "i" \in keep \/ i = 0
    /\ "X" \in keep \/ X = NoMatrix
    /\ "y" \in keep \/ y = NoVector
    /\ "theta" \in keep \/ theta = NoVector
    /\ "at" \in keep \/ at = << >>
    /\ "value" \in keep \/ value = FZero
    /\ "calls" \in keep \/ calls = 0

(***************************************************************************)
(* DecomposeQR, one action for each iteration of DecomposeIntoQR's loop.   *)
(* OrdinaryLeastSquares runs the same loop on X and then solves.           *)
(***************************************************************************)
\* The numbered inputs of every shape, upper triangular and not.
SeededMatrices ==
    {InputMatrix(seed, ins, outs, tri) :
        seed \in 0..MaxSeed, ins \in 1..MaxOuts, outs \in 1..MaxOuts,
        tri \in BOOLEAN}

DecomposeQRInputs ==
    {M \in SeededMatrices : M.outs >= M.ins} \cup {TestDecomposeQRMatrix}

InitDecomposeQR ==
    /\ op = "DecomposeQR"
    /\ pc = "call"
    /\ err = "none"
    /\ A \in DecomposeQRInputs
    /\ Unused({"A"})

\* DecomposeIntoQR(M, Q, R) up to its loop, Q and R newly allocated.
DecomposeEnter(M) ==
    /\ A' = M
    /\ Q' = NewArrayMatrix(Shape(M)[2], Shape(M)[2])
    /\ R' = NewArrayMatrix(Shape(M)[1], Shape(M)[2])
    /\ err' = DecomposeShapeCheck(M, Q', R')
    /\ IF err' = "none"
       THEN /\ tmpQ' = Identity(Shape(M)[2])
            /\ tmpR' = Slice(M, 0, Shape(M)[1], 0, Shape(M)[2])
            /\ i' = 0
            /\ pc' = "loop"
       ELSE /\ pc' = "done"
            /\ UNCHANGED << tmpQ, tmpR, i >>

\* DecomposeQR's allocations, and DecomposeIntoQR up to its loop.
DecomposeBegin ==
    /\ op = "DecomposeQR"
    /\ pc = "call"
    /\ DecomposeEnter(A)
    /\ UNCHANGED << op, B, dst, b, x, e, H, X, y, theta,
          at, value, calls >>

\* One iteration of the loop.
DecomposeStep ==
    /\ pc = "loop"
    /\ i < Shape(A)[1]
    /\ \E qr \in {DecomposeIteration(tmpQ, tmpR, i, Shape(A)[2])} :
           /\ tmpQ' = qr[1]
           /\ tmpR' = qr[2]
           /\ H' = qr[3]
    /\ i' = i + 1
    /\ UNCHANGED << op, pc, err, A, B, dst, b, x, e, Q, R, X, y, theta,
          at, value, calls >>

\* The loop's exit and the two CopyInto; DecomposeQR returns, and
\* OrdinaryLeastSquares goes on.
DecomposeEnd ==
    /\ pc = "loop"
    /\ i >= Shape(A)[1]
    /\ Q' = CopyInto(tmpQ, Q).dst
    /\ R' = CopyInto(tmpR, R).dst
    /\ pc' = IF op = "OrdinaryLeastSquares" THEN "solve" ELSE "done"
    /\ UNCHANGED << op, err, A, B, dst, b, x, e, H, tmpQ, tmpR, i, X, y, theta,
          at, value, calls >>

NextDecomposeQR == DecomposeBegin \/ DecomposeStep \/ DecomposeEnd

SpecDecomposeQR == InitDecomposeQR /\ [][NextDecomposeQR]_vars

\* The X of TestOrdinaryLeastSquares and of TestOrdinaryLeastSquaresNonSquare.
TestOrdinaryLeastSquaresX == MatrixOf(2, 2, << 1, 0, 1, 2 >>)

TestOrdinaryLeastSquaresNonSquareX == MatrixOf(2, 3, << 1, 0, 1, 2, -2, 1 >>)

OrdinaryLeastSquaresMatrices ==
    {M \in SeededMatrices : M.outs >= M.ins}
    \cup {TestOrdinaryLeastSquaresX, TestOrdinaryLeastSquaresNonSquareX}

\* The thetas a y is built from: y = X theta, exact in the integers.
OrdinaryLeastSquaresThetas(p) ==
    {InputVector(seed, p) : seed \in {0, 1, MaxSeed}} \cup {VectorOf(<< 6, -3 >>)}

\* X with a y that X maps some theta to, or with a y of its own.
InitOrdinaryLeastSquares ==
    /\ op = "OrdinaryLeastSquares"
    /\ pc = "call"
    /\ err = "none"
    /\ X \in OrdinaryLeastSquaresMatrices
    /\ \/ /\ theta \in {t \in OrdinaryLeastSquaresThetas(Shape(X)[1]) :
                            Dimension(t) = Shape(X)[1]}
          /\ y = ApplyToVector(X, theta).dst
       \/ /\ theta = NoVector
          /\ y \in {InputVector(seed, Shape(X)[2]) : seed \in {2, MaxSeed - 1}}
    /\ Unused({"X", "y", "theta"})

\* Q, R := DecomposeQR(X), up to the loop.
OrdinaryLeastSquaresBegin ==
    /\ op = "OrdinaryLeastSquares"
    /\ pc = "call"
    /\ DecomposeEnter(X)
    /\ UNCHANGED << op, B, dst, b, x, e, H, X, y, theta,
          at, value, calls >>

\* b := ApplyToVector(Dual(Q), y); return FindInputToUpperTriangular(R, b)
OrdinaryLeastSquaresSolve ==
    /\ op = "OrdinaryLeastSquares"
    /\ pc = "solve"
    /\ \E applied \in {ApplyToVector(Dual(Q), y)} :
          IF applied.err # "none"
          THEN /\ err' = applied.err
               /\ UNCHANGED << b, x >>
          ELSE /\ b' = applied.dst
               /\ \E found \in {FindInputToUpperTriangular(R, applied.dst)} :
                      /\ err' = found.err
                      /\ x' = IF found.err = "none" THEN found.x ELSE NoVector
    /\ pc' = "done"
    /\ UNCHANGED << op, A, B, dst, e, H, Q, R, tmpQ, tmpR, i, X, y, theta,
          at, value, calls >>

NextOrdinaryLeastSquares ==
    \/ OrdinaryLeastSquaresBegin
    \/ DecomposeStep
    \/ DecomposeEnd
    \/ OrdinaryLeastSquaresSolve

SpecOrdinaryLeastSquares ==
    InitOrdinaryLeastSquares /\ [][NextOrdinaryLeastSquares]_vars

(***************************************************************************)
(* What the properties below are stated with.                              *)
(***************************************************************************)
\* d <= tol, for a d that is a number.
AtMost(d, tol) == d.k # "nan" /\ ~FLess(tol, d)

\* |got - expect| <= 1e-9, as ExpectFloat accepts.
Within(got, expect) == AtMost(FAbs(FSub(got, expect)), E9)

\* M and N have one shape and agree in every entry within 1e-9.
MatricesWithin(M, N) ==
    /\ Shape(M) = Shape(N)
    /\ \A in \in 0..(Shape(M)[1] - 1) : \A out \in 0..(Shape(M)[2] - 1) :
           Within(Get(M, in, out), Get(N, in, out))

\* u and v have one dimension and agree in every entry within 1e-9.
VectorsWithin(u, v) ==
    /\ Dimension(u) = Dimension(v)
    /\ \A d \in 0..(Dimension(u) - 1) : Within(VecGet(u, d), VecGet(v, d))

\* The integer that f holds, for an f of magnitude below 2^24.
IntOf(f) == IF f.k = "zero" THEN 0 ELSE f.s * (f.h \div Pow2((-f.e) - 28))

RECURSIVE SumInt(_, _)
\* f[1] + ... + f[n]
SumInt(f, n) == IF n = 0 THEN 0 ELSE f[n] + SumInt(f, n - 1)

\* M without its first row and its column j.
Minor(M, n, j) ==
    [r \in 1..(n - 1) |-> [c \in 1..(n - 1) |-> M[r + 1][IF c < j THEN c ELSE c + 1]]]

RECURSIVE Det(_, _)
\* The determinant of the n by n integer matrix M, along its first row.
Det(M, n) ==
    IF n = 1 THEN M[1][1]
    ELSE SumInt([j \in 1..n |->
                    (IF j % 2 = 1 THEN 1 ELSE -1) * M[1][j] * Det(Minor(M, n, j), n - 1)],
                n)

\* The Gram matrix of the integer matrix M, as a tuple of rows.
Gram(M) ==
    [c \in 1..Shape(M)[1] |-> [d \in 1..Shape(M)[1] |->
        SumInt([o \in 1..Shape(M)[2] |->
                   IntOf(Get(M, c - 1, o - 1)) * IntOf(Get(M, d - 1, o - 1))],
               Shape(M)[2])]]

\* M has full column rank: its Gram determinant is not 0.
FullColumnRank(M) == Det(Gram(M), Shape(M)[1]) # 0

DecomposeQRDone == op = "DecomposeQR" /\ pc = "done"

DecomposeQROrthogonal ==
    DecomposeQRDone =>
        /\ Shape(Q) = << Shape(A)[2], Shape(A)[2] >>
        /\ MatricesWithin(Compose(Q, Dual(Q)).dst, Identity(Shape(A)[2]))

\* DecomposeQR has returned a Q that is not the identity for an A with more
\* outs than ins.
DecomposeQROrthogonalWitness ==
    /\ DecomposeQRDone
    /\ Shape(A)[2] > Shape(A)[1]
    /\ ~MatricesWithin(Q, Identity(Shape(A)[2]))
    /\ MatricesWithin(Compose(Q, Dual(Q)).dst, Identity(Shape(A)[2]))

OrdinaryLeastSquaresDone == op = "OrdinaryLeastSquares" /\ pc = "done"

\* C4: for X of shape (p, n) with n >= p and full column rank, and a y that
\* X maps theta to, OrdinaryLeastSquares(X, y) returns a vector of
\* dimension p that equals theta within 1e-9.
OrdinaryLeastSquaresRecoversTheta ==
    (OrdinaryLeastSquaresDone /\ theta # NoVector /\ FullColumnRank(X)) =>
        /\ err = "none"
        /\ Dimension(x) = Shape(X)[1]
        /\ VectorsWithin(x, theta)

\* C5: OrdinaryLeastSquares(X, y) returns when every diagonal entry of the
\* R of DecomposeQR(X) has magnitude >= 1e-9 and fails with the solver's
\* singular-matrix error otherwise; it never fails with the
\* not-upper-triangular error or a shape error.
OrdinaryLeastSquaresErrors ==
    OrdinaryLeastSquaresDone =>
        err = IF \E o \in 0..(Shape(R)[1] - 1) : FLess(FAbs(Get(R, o, o)), E9)
              THEN "entry is too small for stability" ELSE "none"

(***************************************************************************)
(* FindInputToUpperTriangular and FindInputToUpperTriangularInto.          *)
(***************************************************************************)
\* What the diagonals of the inputs are multiplied by: 1, 1e-9 and 5e-10.
DiagonalScales == {FromInt(1), E9, Half(E9)}

\* M with each diagonal entry multiplied by scale.
ScaleDiagonal(M, scale) ==
    [M EXCEPT !.array = [n \in 1..(M.outs * M.ins) |->
                            IF (n - 1) \div M.ins = (n - 1) % M.ins
                            THEN FMul(M.array[n], scale) ELSE M.array[n]]]

FindInputMatrices ==
    {ScaleDiagonal(M, scale) : M \in SeededMatrices, scale \in DiagonalScales}
    \cup {MatrixOf(3, 3, << 1, 2, 3, 0, 4, 5, 0, 0, 6 >>)}

\* A of every shape, b and the caller's x of every dimension.
InitFindInput ==
    /\ pc = "call"
    /\ err = "none"
    /\ A \in FindInputMatrices
    /\ b \in {InputVector(seed, dim) : seed \in {1, 2, 3}, dim \in 1..MaxOuts}
    /\ \/ /\ op = "FindInputToUpperTriangular"
          /\ x = NoVector
       \/ /\ op = "FindInputToUpperTriangularInto"
          /\ x \in {InputVector(4, dim) : dim \in 1..MaxOuts}
    /\ Unused({"A", "b", "x"})

\* x := NewArrayVector(ins); FindInputToUpperTriangularInto(A, b, x); return x
FindInputToUpperTriangularCall ==
    /\ op = "FindInputToUpperTriangular"
    /\ pc = "call"
    /\ \E found \in {FindInputToUpperTriangular(A, b)} :
           /\ err' = found.err
           /\ x' = IF found.err = "none" THEN found.x ELSE NoVector
    /\ pc' = "done"
    /\ UNCHANGED << op, A, B, dst, b, e, H, Q, R, tmpQ, tmpR, i, X, y, theta,
          at, value, calls >>

FindInputToUpperTriangularIntoCall ==
    /\ op = "FindInputToUpperTriangularInto"
    /\ pc = "call"
    /\ \E found \in {FindInputToUpperTriangularInto(A, b, x)} :
           /\ err' = found.err
           /\ x' = found.x
    /\ pc' = "done"
    /\ UNCHANGED << op, A, B, dst, b, e, H, Q, R, tmpQ, tmpR, i, X, y, theta,
          at, value, calls >>

NextFindInput == FindInputToUpperTriangularCall \/ FindInputToUpperTriangularIntoCall

SpecFindInput == InitFindInput /\ [][NextFindInput]_vars

\* Every M.Get(in, out) with out > in is exactly 0.
ExactlyUpperTriangular(M) ==
    \A in \in 0..(Shape(M)[1] - 1) : \A out \in (in + 1)..(Shape(M)[2] - 1) :
        ~FNonZero(Get(M, in, out))

\* Some diagonal entry of M has magnitude below 1e-9.
SmallDiagonal(M) ==
    \E o \in 0..(Shape(M)[1] - 1) : FLess(FAbs(Get(M, o, o)), E9)

\* The messages of the solver's panics.
ShapeErrors ==
    {"can't solve upper triangular with less outs than ins",
     "expected b to have same dims as A has outs",
     "dimension mismatch"}

NotUpperTriangularError == "expected upper triangular but found nonzero"

SingularError == "entry is too small for stability"

\* (b(o) - sum over in in o+1..ins-1 of x(in) A(in, o)) / A(o, o), with the
\* x returned.
Substituted(o) ==
    FDiv(FSub(VecGet(b, o),
              SumLoop(LAMBDA in : FMul(VecGet(x, in), Get(A, in, o)),
                      o + 1, Shape(A)[1], FZero)),
         Get(A, o, o))

\* 1 + the sum over in of |x(in) A(in, o)|, with the x returned.
RowMagnitude(o) ==
    SumLoop(LAMBDA in : FAbs(FMul(VecGet(x, in), Get(A, in, o))),
            0, Shape(A)[1], FromInt(1))

\* FindInputToUpperTriangular(A, b) has ended, for an exactly upper
\* triangular A with outs >= ins, no diagonal entry below 1e-9 in magnitude,
\* and a b of dimension outs.
FindInputSolvable ==
    /\ op = "FindInputToUpperTriangular"
    /\ pc = "done"
    /\ Shape(A)[2] >= Shape(A)[1]
    /\ Dimension(b) = Shape(A)[2]
    /\ ExactlyUpperTriangular(A)
    /\ ~SmallDiagonal(A)

\* Ax agrees with b within 1e-9 in each of the entries outs.
ResidualWithin(Ax, outs) == \A o \in outs : Within(VecGet(Ax, o), VecGet(b, o))

\* Ax agrees with b in each of the entries outs within 1e-9 times the
\* magnitude of the row's terms.
ResidualWithinScaled(Ax, outs) ==
    \A o \in outs :
        AtMost(FAbs(FSub(VecGet(Ax, o), VecGet(b, o))), FMul(E9, RowMagnitude(o)))

\* The entries outs of Ax are 0.
ZeroIn(Ax, outs) == \A o \in outs : ~FNonZero(VecGet(Ax, o))

\* C6, as stated: for an exactly upper triangular A of shape (ins, outs),
\* outs >= ins, with every |A(o,o)| >= 1e-9, and b of dimension outs,
\* FindInputToUpperTriangular(A, b) returns x of dimension ins with
\* ApplyToVector(A, x) equal to b within 1e-9 in every one of its outs
\* entries, where x(o) = (b(o) - sum of x(i) A(i,o) for i > o) / A(o,o).
FindInputSolvesEveryEntry ==
    FindInputSolvable =>
        /\ err = "none"
        /\ Dimension(x) = Shape(A)[1]
        /\ \A o \in 0..(Shape(A)[1] - 1) : VecGet(x, o) = Substituted(o)
        /\ ResidualWithin(ApplyToVector(A, x).dst, 0..(Shape(A)[2] - 1))

\* C6, amended: on the same inputs FindInputToUpperTriangular(A, b) returns
\* x of dimension ins, x(o) = (b(o) - sum of x(i) A(i,o) for i > o) / A(o,o),
\* and ApplyToVector(A, x) equals b in each of its first ins entries within
\* 1e-9 (1 + sum over i of |x(i) A(i,o)|); its entries from ins on are 0,
\* whatever b holds there.
FindInputSolves ==
    FindInputSolvable =>
        /\ err = "none"
        /\ Dimension(x) = Shape(A)[1]
        /\ \A o \in 0..(Shape(A)[1] - 1) : VecGet(x, o) = Substituted(o)
        /\ ResidualWithinScaled(ApplyToVector(A, x).dst, 0..(Shape(A)[1] - 1))
        /\ ZeroIn(ApplyToVector(A, x).dst, Shape(A)[1]..(Shape(A)[2] - 1))

\* FindInputToUpperTriangular has solved a system of more outs than ins
\* whose A has nonzero entries above the diagonal.
FindInputSolvesWitness ==
    /\ FindInputSolvable
    /\ err = "none"
    /\ Shape(A)[2] > Shape(A)[1]
    /\ Shape(A)[1] > 1
    /\ FNonZero(Get(A, 1, 0))
    /\ FNonZero(VecGet(x, 0))
    /\ FNonZero(VecGet(x, 1))

\* C7: when outs >= ins, b has dimension outs and A is exactly upper
\* triangular, FindInputToUpperTriangular(A, b) fails with the singular
\* error if and only if some |A(o,o)| < 1e-9; it then returns no vector, and
\* with every |A(o,o)| >= 1e-9, of either sign, it returns.
FindInputSingular ==
    (/\ op = "FindInputToUpperTriangular"
     /\ pc = "done"
     /\ Shape(A)[2] >= Shape(A)[1]
     /\ Dimension(b) = Shape(A)[2]
     /\ ExactlyUpperTriangular(A)) =>
        /\ err = IF SmallDiagonal(A) THEN SingularError ELSE "none"
        /\ err = SingularError => x = NoVector
        /\ err = "none" => Dimension(x) = Shape(A)[1]

\* FindInputToUpperTriangular has failed on an upper triangular A whose
\* diagonal has a nonzero entry below 1e-9 and none that is 0.
FindInputSingularWitness ==
    /\ op = "FindInputToUpperTriangular"
    /\ pc = "done"
    /\ Shape(A)[2] >= Shape(A)[1]
    /\ Dimension(b) = Shape(A)[2]
    /\ ExactlyUpperTriangular(A)
    /\ SmallDiagonal(A)
    /\ \A o \in 0..(Shape(A)[1] - 1) : FNonZero(Get(A, o, o))
    /\ err = SingularError

\* The shapes of A, b and x that FindInputToUpperTriangularInto refuses.
FindInputShapesWrong ==
    \/ Shape(A)[2] < Shape(A)[1]
    \/ Dimension(b) # Shape(A)[2]
    \/ Dimension(x) # Shape(A)[1]

\* C8: FindInputToUpperTriangularInto(A, b, x) fails with a shape error when
\* outs(A) < ins(A), b.Dimension() # outs(A) or x.Dimension() # ins(A), and
\* with the not-upper-triangular error when some A.Get(i, o) with o > i is
\* not 0; either way x is as it was.
FindInputChecksFirst ==
    [][(op = "FindInputToUpperTriangularInto" /\ pc = "call") =>
          /\ FindInputShapesWrong => (err' \in ShapeErrors /\ x' = x)
          /\ (~FindInputShapesWrong /\ ~ExactlyUpperTriangular(A)) =>
                 (err' = NotUpperTriangularError /\ x' = x)
          /\ (~FindInputShapesWrong /\ ExactlyUpperTriangular(A)) =>
                 err' \in {"none", SingularError}]_vars

\* FindInputToUpperTriangularInto has refused an A with a nonzero below a
\* diagonal that back substitution would have divided by, and x still holds
\* what the caller put in it.
FindInputChecksFirstWitness ==
    /\ op = "FindInputToUpperTriangularInto"
    /\ pc = "done"
    /\ err = NotUpperTriangularError
    /\ ~SmallDiagonal(A)
    /\ x = InputVector(4, Shape(A)[1])
    /\ \E d \in 0..(Dimension(x) - 1) : FNonZero(VecGet(x, d))

(***************************************************************************)
(* Householder and HouseholderInto.                                        *)
(***************************************************************************)
\* x and a basis vector e of every dimension; HouseholderInto's H of every
\* shape, holding what the caller left in it.
InitHouseholder ==
    /\ pc = "call"
    /\ err = "none"
    /\ x \in {InputVector(seed, dim) : seed \in 0..MaxSeed, dim \in 1..MaxOuts}
    /\ e \in UNION {{BasisVector(dim, index) : index \in 0..(dim - 1)} :
                        dim \in 1..MaxOuts}
    /\ \/ /\ op = "Householder"
          /\ H = NoMatrix
       \/ /\ op = "HouseholderInto"
          /\ H \in {InputMatrix(5, ins, outs, FALSE) :
                       ins \in 1..MaxOuts, outs \in 1..MaxOuts}
    /\ Unused({"x", "e", "H"})

\* H := Identity(x.Dimension()); HouseholderInto(x, e, H); return H
HouseholderCall ==
    /\ op = "Householder"
    /\ pc = "call"
    /\ \E built \in {Householder(x, e)} :
           /\ err' = built.err
           /\ H' = IF built.err = "none" THEN built.H ELSE NoMatrix
    /\ pc' = "done"
    /\ UNCHANGED << op, A, B, dst, b, x, e, Q, R, tmpQ, tmpR, i, X, y, theta,
          at, value, calls >>

HouseholderIntoCall ==
    /\ op = "HouseholderInto"
    /\ pc = "call"
    /\ \E built \in {HouseholderInto(x, e, H)} :
           /\ err' = built.err
           /\ H' = built.H
    /\ pc' = "done"
    /\ UNCHANGED << op, A, B, dst, b, x, e, Q, R, tmpQ, tmpR, i, X, y, theta,
          at, value, calls >>

NextHouseholder == HouseholderCall \/ HouseholderIntoCall

SpecHouseholder == InitHouseholder /\ [][NextHouseholder]_vars

(***************************************************************************)
(* Compose.                                                                *)
(***************************************************************************)
\* Input number seed of shape (ins, outs) as an array matrix, as the dual
\* of one and as a slice of a larger one.
Views(seed, ins, outs) ==
    {InputMatrix(seed, ins, outs, FALSE),
     Dual(InputMatrix(seed, outs, ins, FALSE)),
     Slice(InputMatrix(seed, ins + 1, outs + 1, FALSE), 1, ins + 1, 1, outs + 1)}

InitCompose ==
    /\ op = "Compose"
    /\ pc = "call"
    /\ err = "none"
    /\ \E seed \in 0..MaxSeed :
          /\ A \in UNION {Views(seed, ins, outs) :
                             ins \in 1..MaxOuts, outs \in 1..MaxOuts}
          /\ B \in UNION {Views(MaxSeed - seed, ins, outs) :
                             ins \in 1..MaxOuts, outs \in 1..MaxOuts}
    /\ Unused({"A", "B"})

\* dst := NewArrayMatrix(ins(A), outs(B)); ComposeInto(A, B, dst); return dst
ComposeCall ==
    /\ op = "Compose"
    /\ pc = "call"
    /\ \E composed \in {Compose(A, B)} :
           /\ err' = composed.err
           /\ dst' = IF composed.err = "none" THEN composed.dst ELSE NoMatrix
    /\ pc' = "done"
    /\ UNCHANGED << op, A, B, b, x, e, H, Q, R, tmpQ, tmpR, i, X, y, theta,
          at, value, calls >>

NextCompose == ComposeCall

SpecCompose == InitCompose /\ [][NextCompose]_vars

\* sign = +1 if x[0] >= 0 else -1
SignOfFirst == IF FLess(VecGet(x, 0), FZero) THEN FromInt(-1) ELSE FromInt(1)

\* x + sign L2Norm(x) e
Axis ==
    [kind |-> "array",
     array |-> [n \in 1..Dimension(x) |->
                   FAdd(VecGet(x, n - 1),
                        FMul(FMul(SignOfFirst, L2Norm(x)), VecGet(e, n - 1)))]]

\* -sign L2Norm(x) e
Reflected ==
    [kind |-> "array",
     array |-> [n \in 1..Dimension(x) |->
                   FMul(FMul(FNeg(SignOfFirst), L2Norm(x)), VecGet(e, n - 1))]]

\* The matrix of entries [in = out] - 2 v(out) v(in).
ReflectionOf(v) ==
    [kind |-> "array", ins |-> Dimension(v), outs |-> Dimension(v),
     array |-> [n \in 1..(Dimension(v) * Dimension(v)) |->
                   FSub(IF (n - 1) % Dimension(v) = (n - 1) \div Dimension(v)
                        THEN FromInt(1) ELSE FZero,
                        FMul(FMul(FromInt(2), VecGet(v, (n - 1) \div Dimension(v))),
                             VecGet(v, (n - 1) % Dimension(v))))]]

NonZeroVector(v) == \E d \in 0..(Dimension(v) - 1) : FNonZero(VecGet(v, d))

\* Householder or HouseholderInto has ended, and whether it failed with a
\* dimension mismatch is whether e's dimension or H's shape is not dim.
HouseholderMismatch ==
    (op \in {"Householder", "HouseholderInto"} /\ pc = "done") =>
        err = IF \/ Dimension(e) # Dimension(x)
                 \/ /\ op = "HouseholderInto"
                    /\ Shape(H) # << Dimension(x), Dimension(x) >>
              THEN "dimension mismatch" ELSE "none"

\* H is the reflection the formula gives, symmetric and orthogonal, and
\* maps x to -sign L2Norm(x) e, within 1e-9.
HouseholderReflects ==
    /\ err = "none"
    /\ H = ReflectionOf(Normalize(Axis))
    /\ MatricesWithin(H, Dual(H))
    /\ MatricesWithin(Compose(H, H).dst, Identity(Dimension(x)))
    /\ VectorsWithin(ApplyToVector(H, x).dst, Reflected)

\* Householder(x, e) has ended, for a nonzero x and a basis vector e of x's
\* dimension.
HouseholderDone ==
    /\ op = "Householder"
    /\ pc = "done"
    /\ Dimension(e) = Dimension(x)
    /\ NonZeroVector(x)

ProductEntry(in, out) ==
    SumLoop(LAMBDA k : FMul(Get(A, in, k), Get(B, k, out)), 0, Shape(A)[2], FZero)

\* C10: Compose(A, B) fails with a shape mismatch when outs(A) # ins(B);
\* otherwise it returns a new matrix of shape (ins(A), outs(B)) whose entry
\* (i, o) is the sum over k of A.Get(i,k) B.Get(k,o); A and B stay as they
\* were.
ComposeProduct ==
    [][(op = "Compose" /\ pc = "call") =>
          /\ A' = A
          /\ B' = B
          /\ IF Shape(A)[2] # Shape(B)[1] THEN err' = "dimension mismatch"
             ELSE /\ err' = "none"
                  /\ dst'.kind = "array"
                  /\ Shape(dst') = << Shape(A)[1], Shape(B)[2] >>
                  /\ \A in \in 0..(Shape(A)[1] - 1) : \A out \in 0..(Shape(B)[2] - 1) :
                         Get(dst', in, out) = ProductEntry(in, out)]_vars

\* Compose has returned the product of a dual and a slice that are not
\* square, with an entry that is a sum of two nonzero terms.
ComposeProductWitness ==
    /\ op = "Compose"
    /\ pc = "done"
    /\ err = "none"
    /\ A.kind = "dual"
    /\ B.kind = "slice"
    /\ Shape(A)[1] # Shape(A)[2]
    /\ Shape(B)[1] # Shape(B)[2]
    /\ FNonZero(FMul(Get(A, 0, 0), Get(B, 0, 0)))
    /\ FNonZero(FMul(Get(A, 0, 1), Get(B, 1, 0)))
    /\ Get(dst, 0, 0) = ProductEntry(0, 0)

(***************************************************************************)
(* ApplyToVector, ApplyToVectorInto, ApplyToMatrix and ApplyToMatrixInto,  *)
(* one action for each call.                                               *)
(***************************************************************************)
\* Input number seed of each shape, as an array and through the views.
AllViews(seed) ==
    UNION {Views(seed, ins, outs) : ins \in 1..MaxOuts, outs \in 1..MaxOuts}

\* Vector number seed of each dimension, as an array and as the view of a
\* one-column matrix.
VectorViews(seed) ==
    UNION {{InputVector(seed, dim),
            VectorFromColumn(InputMatrix(seed, 1, dim, FALSE))} : dim \in 1..MaxOuts}

InitApply ==
    /\ pc = "call"
    /\ err = "none"
    /\ \E seed \in 0..MaxSeed :
          /\ A \in AllViews(seed)
          /\ \/ /\ op = "ApplyToVector"
                /\ x \in VectorViews(MaxSeed - seed)
                /\ Unused({"A", "x"})
             \/ /\ op = "ApplyToVectorInto"
                /\ x \in VectorViews(MaxSeed - seed)
                /\ dst \in {InputVector(seed, dim) : dim \in 1..MaxOuts}
                /\ Unused({"A", "x", "dst"})
             \/ /\ op = "ApplyToMatrix"
                /\ X \in AllViews(MaxSeed - seed)
                /\ Unused({"A", "X"})
             \/ /\ op = "ApplyToMatrixInto"
                /\ X \in AllViews(MaxSeed - seed)
                /\ dst = InputMatrix(seed, Shape(X)[1], Shape(A)[2], FALSE)
                /\ Unused({"A", "X", "dst"})

\* dst := NewArrayVector(outs); ApplyToVectorInto(A, x, dst); return dst
ApplyToVectorCall ==
    /\ op = "ApplyToVector"
    /\ pc = "call"
    /\ \E applied \in {ApplyToVector(A, x)} :
           /\ err' = applied.err
           /\ dst' = IF applied.err = "none" THEN applied.dst ELSE dst
    /\ pc' = "done"
    /\ UNCHANGED << op, A, B, b, x, e, H, Q, R, tmpQ, tmpR, i, X, y, theta,
          at, value, calls >>

ApplyToVectorIntoCall ==
    /\ op = "ApplyToVectorInto"
    /\ pc = "call"
    /\ \E applied \in {ApplyToVectorInto(A, x, dst)} :
           /\ err' = applied.err
           /\ dst' = applied.dst
    /\ pc' = "done"
    /\ UNCHANGED << op, A, B, b, x, e, H, Q, R, tmpQ, tmpR, i, X, y, theta,
          at, value, calls >>

\* dst := NewArrayMatrix(xIns, aOuts); ApplyToMatrixInto(A, X, dst); return dst
ApplyToMatrixCall ==
    /\ op = "ApplyToMatrix"
    /\ pc = "call"
    /\ \E applied \in {ApplyToMatrix(A, X)} :
           /\ err' = applied.err
           /\ dst' = IF applied.err = "none" THEN applied.dst ELSE dst
    /\ pc' = "done"
    /\ UNCHANGED << op, A, B, b, x, e, H, Q, R, tmpQ, tmpR, i, X, y, theta,
          at, value, calls >>

ApplyToMatrixIntoCall ==
    /\ op = "ApplyToMatrixInto"
    /\ pc = "call"
    /\ \E applied \in {ApplyToMatrixInto(A, X, dst)} :
           /\ err' = applied.err
           /\ dst' = applied.dst
    /\ pc' = "done"
    /\ UNCHANGED << op, A, B, b, x, e, H, Q, R, tmpQ, tmpR, i, X, y, theta,
          at, value, calls >>

NextApply ==
    \/ ApplyToVectorCall
    \/ ApplyToVectorIntoCall
    \/ ApplyToMatrixCall
    \/ ApplyToMatrixIntoCall

SpecApply == InitApply /\ [][NextApply]_vars

\* The sum over i of A.Get(i, out) x.Get(i), in the integers: the entries of
\* the inputs are small integers, whose products and sums a float64 holds
\* exactly.
AppliedEntry(out) ==
    FromInt(SumInt([n \in 1..Shape(A)[1] |->
                       IntOf(Get(A, n - 1, out)) * IntOf(VecGet(x, n - 1))],
                   Shape(A)[1]))

\* C11: ApplyToVector(A, x) fails with a dimension mismatch when
\* x.Dimension() # ins(A); otherwise it returns a new vector of dimension
\* outs(A) whose entry o is the sum over i of A.Get(i,o) x.Get(i), and A and x
\* stay as they were; ApplyToVectorInto fails as well, before it writes, when
\* dst.Dimension() # outs(A).
ApplyToVectorSums ==
    [][(pc = "call" /\ op \in {"ApplyToVector", "ApplyToVectorInto"}) =>
          /\ A' = A
          /\ x' = x
          /\ IF Dimension(x) # Shape(A)[1]
             THEN /\ err' \in {"dimension mismatch", "this matrix cannot be applied"}
                  /\ dst' = dst
             ELSE IF op = "ApplyToVectorInto" /\ Dimension(dst) # Shape(A)[2]
             THEN /\ err' = "dimension mismatch"
                  /\ dst' = dst
             ELSE /\ err' = "none"
                  /\ dst'.kind = "array"
                  /\ Dimension(dst') = Shape(A)[2]
                  /\ \A out \in 0..(Shape(A)[2] - 1) :
                         VecGet(dst', out) = AppliedEntry(out)]_vars

\* ApplyToVector has returned the product of a slice of shape (2, 3) and a
\* vector, with an entry that is a sum of two nonzero terms.
ApplyToVectorSumsWitness ==
    /\ op = "ApplyToVector"
    /\ pc = "done"
    /\ err = "none"
    /\ A.kind = "slice"
    /\ Shape(A) = << 2, 3 >>
    /\ Dimension(dst) = 3
    /\ FNonZero(FMul(Get(A, 0, 0), VecGet(x, 0)))
    /\ FNonZero(FMul(Get(A, 1, 0), VecGet(x, 1)))
    /\ VecGet(dst, 0) = AppliedEntry(0)

\* C12: when outs(X) = ins(A), ApplyToMatrix(A, X) returns a matrix of shape
\* (ins(X), outs(A)) that equals Compose(X, A) in every entry, and
\* ApplyToMatrixInto(A, X, dst) writes the entries that ComposeInto(X, A, dst)
\* writes.
ApplyToMatrixIsCompose ==
    [][(pc = "call" /\ op \in {"ApplyToMatrix", "ApplyToMatrixInto"}
            /\ Shape(X)[2] = Shape(A)[1]) =>
          /\ err' = "none"
          /\ Shape(dst') = << Shape(X)[1], Shape(A)[2] >>
          /\ IF op = "ApplyToMatrix"
             THEN /\ dst'.kind = "array"
                  /\ dst'.array = Compose(X, A).dst.array
             ELSE dst' = ComposeInto(X, A, dst).dst]_vars

\* ApplyToMatrix has returned A X for an A and an X that are not square and
\* that Compose(A, X) would reject.
ApplyToMatrixIsComposeWitness ==
    /\ op = "ApplyToMatrix"
    /\ pc = "done"
    /\ err = "none"
    /\ Shape(X) = << 2, 3 >>
    /\ Shape(A) = << 3, 1 >>
    /\ A.kind = "dual"
    /\ Shape(dst) = << 2, 1 >>
    /\ FNonZero(Get(dst, 0, 0))
    /\ Get(dst, 0, 0) = Get(Compose(X, A).dst, 0, 0)

(***************************************************************************)
(* Get and Set of a dense matrix and of a view over it.  A is the matrix   *)
(* NewArrayMatrix returned and B a view made over it, which holds a        *)
(* pointer to A: a Set through either writes the one array that both read. *)
(* A vector x made from B holds a pointer to B.  The Set number k writes   *)
(* the value k, which tells the writes apart.  A panic ends the behaviour; *)
(* so does a Get, which changes nothing.                                   *)
(***************************************************************************)
\* The slices of M that are not empty.
Slices(M) ==
    {S \in {Slice(M, inLo, inHi, outLo, outHi) :
                inLo \in 0..(Shape(M)[1] - 1), inHi \in 1..Shape(M)[1],
                outLo \in 0..(Shape(M)[2] - 1), outHi \in 1..Shape(M)[2]} :
        S.inLo < S.inHi /\ S.outLo < S.outHi}

\* A matrix as NewArrayMatrix returns it, of the shape of TestMatrix,
\* TestSlice and TestDual or of the shape of TestVectorFromRow.
NewMatrices == {NewArrayMatrix(2, 3), NewArrayMatrix(3, 2)}

InitAccess ==
    /\ op = "NewArrayMatrix"
    /\ pc = "call"
    /\ err = "none"
    /\ A \in NewMatrices
    /\ B \in Slices(A) \cup {Dual(A), Dual(Dual(A))}
    /\ Unused({"A", "B"})

\* The names of the matrices that a call can be made on: A, the view B, and
\* the view that B is a view of.
Handles == {"A", "B"} \cup (IF B.A.kind = "array" THEN {} ELSE {"B.A"})

Handle(name) == IF name = "A" THEN A ELSE IF name = "B" THEN B ELSE B.A

\* The indices tried on M: those of its shape, and up to two beyond its ends.
Indices(M) ==
    ((-1)..(Shape(M)[1] + 1)) \X ((-1)..(Shape(M)[2] + 1))

\* Handle(name).Set(in, out, value)
SetCall(name) ==
    /\ pc = "call"
    /\ calls < MaxCalls
    /\ \E index \in Indices(Handle(name)) :
           /\ at' = [on |-> name, in |-> index[1], out |-> index[2]]
           /\ err' = AccessError(Handle(name), index[1], index[2])
           /\ A' = IF err' = "none"
                   THEN Underlying(Set(Handle(name), index[1], index[2],
                                       FromInt(calls + 1)))
                   ELSE A
    /\ B' = Rebase(B, A')
    /\ x' = IF x.kind = "array" THEN x ELSE [x EXCEPT !.A = B']
    /\ value' = FromInt(calls + 1)
    /\ calls' = calls + 1
    /\ op' = "Set"
    /\ pc' = IF err' = "none" THEN "call" ELSE "done"
    /\ UNCHANGED << dst, b, e, H, Q, R, tmpQ, tmpR, i, X, y, theta >>

\* value := Handle(name).Get(in, out)
GetCall(name) ==
    /\ pc = "call"
    /\ \E index \in Indices(Handle(name)) :
           /\ at' = [on |-> name, in |-> index[1], out |-> index[2]]
           /\ err' = AccessError(Handle(name), index[1], index[2])
           /\ value' = IF err' = "none"
                       THEN Get(Handle(name), index[1], index[2])
                       ELSE value
    /\ op' = "Get"
    /\ pc' = "done"
    /\ UNCHANGED << A, B, dst, b, x, e, H, Q, R, tmpQ, tmpR, i, X, y, theta, calls >>

NextAccess == \E name \in Handles : SetCall(name) \/ GetCall(name)

SpecAccess == InitAccess /\ [][NextAccess]_vars

\* The index of the last call lies in the shape of M.
InRange(M, index) ==
    /\ index.in \in 0..(Shape(M)[1] - 1)
    /\ index.out \in 0..(Shape(M)[2] - 1)

\* N is M with the entry (in, out) set to the value of the last call and
\* every other entry as it was.
OneEntryWritten(M, N, in, out) ==
    /\ Shape(N) = Shape(M)
    /\ \A cell \in (0..(Shape(M)[1] - 1)) \X (0..(Shape(M)[2] - 1)) :
           Get(N, cell[1], cell[2]) =
               IF cell = << in, out >> THEN value' ELSE Get(M, cell[1], cell[2])

\* C13: S = Slice(A, inLo, inHi, outLo, outHi) has the shape
\* (inHi - inLo, outHi - outLo) and aliases A: within that shape S.Get(in, out)
\* returns the current A.Get(in + inLo, out + outLo) and S.Set(in, out, v)
\* changes A's entry (in + inLo, out + outLo) and no other; so after Sets
\* through A and through S in any order both agree on the shared entries.
SliceAliases ==
    [][(pc = "call" /\ B.kind = "slice") =>
          /\ Shape(B') = << B.inHi - B.inLo, B.outHi - B.outLo >>
          /\ \A cell \in (0..(Shape(B)[1] - 1)) \X (0..(Shape(B)[2] - 1)) :
                 Get(B', cell[1], cell[2]) =
                     Get(A', cell[1] + B.inLo, cell[2] + B.outLo)
          /\ (at'.on = "B" /\ InRange(B, at')) =>
                 /\ err' = "none"
                 /\ op' = "Get" =>
                        value' = Get(A, at'.in + B.inLo, at'.out + B.outLo)
                 /\ op' = "Set" =>
                        OneEntryWritten(A, A', at'.in + B.inLo, at'.out + B.outLo)]_vars

\* Two Sets, the second through a slice that begins at (1, 1): A holds at
\* (in + 1, out + 1) what the slice was given at (in, out), and the slice and
\* A read the value of the first Set at one shared entry.
SliceAliasesWitness ==
    /\ pc = "call"
    /\ calls = 2
    /\ B.kind = "slice"
    /\ B.inLo = 1
    /\ B.outLo = 1
    /\ op = "Set"
    /\ at.on = "B"
    /\ InRange(B, at)
    /\ Get(A, at.in + 1, at.out + 1) = FromInt(2)
    /\ \E cell \in (0..(Shape(B)[1] - 1)) \X (0..(Shape(B)[2] - 1)) :
           /\ Get(B, cell[1], cell[2]) = FromInt(1)
           /\ Get(A, cell[1] + 1, cell[2] + 1) = FromInt(1)

\* C14: a Get or a Set on a slice with in outside [0, inHi - inLo) or out
\* outside [0, outHi - outLo) fails with an out-of-bounds error and neither
\* reads nor writes the parent, also when (in + inLo, out + outLo) is an index
\* of the parent, and also at in = inHi - inLo and at out = outHi - outLo.
SliceChecksItsShape ==
    [][(pc = "call" /\ B.kind = "slice" /\ at'.on = "B" /\ ~InRange(B, at')) =>
          /\ err' # "none"
          /\ A' = A]_vars

\* C15: a Get or a Set on the matrix of NewArrayMatrix(ins, outs) with in
\* outside [0, ins) or out outside [0, outs) fails with an out-of-bounds
\* error; an index with in >= ins or in < 0 whose position out*ins + in lies
\* in the array neither reads nor writes the entry of another (in, out).
ArrayChecksItsShape ==
    [][(pc = "call" /\ at'.on = "A" /\ ~InRange(A, at')) =>
          /\ err' # "none"
          /\ A' = A]_vars

\* The indices of the shape of M.
Cells(M) == (0..(Shape(M)[1] - 1)) \X (0..(Shape(M)[2] - 1))

\* C16: Dual(A) is a transpose view of A: its shape is (outs(A), ins(A)),
\* Get(i, o) returns the current A.Get(o, i), and Set(i, o, v) writes A's
\* entry (o, i); so Dual(Dual(A)) has the shape of A and equals A in every
\* entry, also after Sets through A or through either dual.
DualTransposes ==
    [][(pc = "call" /\ B.kind = "dual") =>
          /\ Shape(IF B.A.kind = "dual" THEN B'.A ELSE B') =
                 << Shape(A)[2], Shape(A)[1] >>
          /\ \A cell \in Cells(A) :
                 Get(IF B.A.kind = "dual" THEN B'.A ELSE B', cell[2], cell[1]) =
                     Get(A', cell[1], cell[2])
          /\ B.A.kind = "dual" =>
                 /\ Shape(B') = Shape(A)
                 /\ \A cell \in Cells(A) :
                        Get(B', cell[1], cell[2]) = Get(A', cell[1], cell[2])
          /\ InRange(Handle(at'.on), at') =>
                 /\ err' = "none"
                 /\ (op' = "Get" /\ Handle(at'.on).kind = "dual"
                        /\ Handle(at'.on).A.kind = "array") =>
                        value' = Get(A, at'.out, at'.in)
                 /\ (op' = "Set" /\ Handle(at'.on).kind = "dual"
                        /\ Handle(at'.on).A.kind = "array") =>
                        OneEntryWritten(A, A', at'.out, at'.in)
                 /\ (op' = "Get" /\ at'.on = "B" /\ B.A.kind = "dual") =>
                        value' = Get(A, at'.in, at'.out)
                 /\ (op' = "Set" /\ at'.on = "B" /\ B.A.kind = "dual") =>
                        OneEntryWritten(A, A', at'.in, at'.out)]_vars

\* Two Sets, the second through the dual of A at an (i, o) off the diagonal:
\* A holds its value at (o, i), and the dual of the dual and A read the value
\* of the first Set at one entry.
DualTransposesWitness ==
    /\ pc = "call"
    /\ calls = 2
    /\ B.kind = "dual"
    /\ B.A.kind = "dual"
    /\ op = "Set"
    /\ at.on = "B.A"
    /\ InRange(B.A, at)
    /\ at.in # at.out
    /\ Get(A, at.out, at.in) = FromInt(2)
    /\ \E cell \in Cells(A) :
           /\ Get(B, cell[1], cell[2]) = FromInt(1)
           /\ Get(A, cell[1], cell[2]) = FromInt(1)

(***************************************************************************)
(* Vectors: NewArrayVector, and VectorFromColumn and VectorFromRow of a    *)
(* matrix B that is A, a slice of A or the dual of A.  The vector is made, *)
(* and then A and the vector are read and written.                         *)
(***************************************************************************)
InitVector ==
    /\ pc = "make"
    /\ err = "none"
    /\ A \in NewMatrices
    /\ \/ /\ op \in {"VectorFromColumn", "VectorFromRow"}
          /\ B \in Slices(A) \cup {A, Dual(A)}
       \/ /\ op = "NewArrayVector"
          /\ B = A
    /\ Unused({"A", "B"})

VectorFromColumnCall ==
    /\ op = "VectorFromColumn"
    /\ pc = "make"
    /\ err' = VectorFromColumnError(B)
    /\ x' = IF err' = "none" THEN VectorFromColumn(B) ELSE x
    /\ pc' = IF err' = "none" THEN "call" ELSE "done"
    /\ UNCHANGED << op, A, B, dst, b, e, H, Q, R, tmpQ, tmpR, i, X, y, theta,
          at, value, calls >>

VectorFromRowCall ==
    /\ op = "VectorFromRow"
    /\ pc = "make"
    /\ err' = VectorFromRowError(B)
    /\ x' = IF err' = "none" THEN VectorFromRow(B) ELSE x
    /\ pc' = IF err' = "none" THEN "call" ELSE "done"
    /\ UNCHANGED << op, A, B, dst, b, e, H, Q, R, tmpQ, tmpR, i, X, y, theta,
          at, value, calls >>

NewArrayVectorCall ==
    /\ op = "NewArrayVector"
    /\ pc = "make"
    /\ \E dims \in 1..MaxOuts : x' = NewArrayVector(dims)
    /\ pc' = "call"
    /\ UNCHANGED << op, err, A, B, dst, b, e, H, Q, R, tmpQ, tmpR, i, X, y, theta,
          at, value, calls >>

\* x.Set(d, value)
VecSetCall ==
    /\ pc = "call"
    /\ calls < MaxCalls
    /\ \E d \in (-1)..(Dimension(x) + 1) :
           /\ at' = [on |-> "x", d |-> d]
           /\ err' = VecAccessError(x, d)
           /\ \E written \in {IF err' = "none" THEN VecSet(x, d, FromInt(calls + 1))
                              ELSE x} :
                  IF x.kind = "array"
                  THEN /\ x' = written
                       /\ UNCHANGED << A, B >>
                  ELSE /\ A' = Underlying(written.A)
                       /\ B' = Rebase(B, A')
                       /\ x' = [x EXCEPT !.A = B']
    /\ value' = FromInt(calls + 1)
    /\ calls' = calls + 1
    /\ op' = "Set"
    /\ pc' = IF err' = "none" THEN "call" ELSE "done"
    /\ UNCHANGED << dst, b, e, H, Q, R, tmpQ, tmpR, i, X, y, theta >>

\* value := x.Get(d)
VecGetCall ==
    /\ pc = "call"
    /\ \E d \in (-1)..(Dimension(x) + 1) :
           /\ at' = [on |-> "x", d |-> d]
           /\ err' = VecAccessError(x, d)
           /\ value' = IF err' = "none" THEN VecGet(x, d) ELSE value
    /\ op' = "Get"
    /\ pc' = "done"
    /\ UNCHANGED << A, B, dst, b, x, e, H, Q, R, tmpQ, tmpR, i, X, y, theta, calls >>

NextVector ==
    \/ VectorFromColumnCall
    \/ VectorFromRowCall
    \/ NewArrayVectorCall
    \/ VecSetCall
    \/ VecGetCall
    \/ SetCall("A")
    \/ GetCall("A")

SpecVector == InitVector /\ [][NextVector]_vars

\* The place in A's array of the entry of B that the view x reads at d.
Place(d) == IF x.kind = "column" THEN Offset(B, 0, d) ELSE Offset(B, d, 0)

\* C17: VectorFromColumn(B) fails unless ins(B) = 1 and otherwise returns a
\* view with Dimension outs(B), Get(d) = B.Get(0, d) and Set(d, v) writing B's
\* entry (0, d); VectorFromRow(B) fails unless outs(B) = 1 and otherwise has
\* Dimension ins(B), Get(d) = B.Get(d, 0) and Set(d, v) writing B's entry
\* (d, 0); both alias B, and the matrix A that B is a slice of, and copy
\* nothing.
VectorViewsAlias ==
    [][/\ (pc = "make" /\ op = "VectorFromColumn") =>
              IF Shape(B)[1] # 1 THEN err' # "none"
              ELSE /\ err' = "none"
                   /\ Dimension(x') = Shape(B)[2]
                   /\ \A d \in 0..(Shape(B)[2] - 1) : VecGet(x', d) = Get(B, 0, d)
       /\ (pc = "make" /\ op = "VectorFromRow") =>
              IF Shape(B)[2] # 1 THEN err' # "none"
              ELSE /\ err' = "none"
                   /\ Dimension(x') = Shape(B)[1]
                   /\ \A d \in 0..(Shape(B)[1] - 1) : VecGet(x', d) = Get(B, d, 0)
       /\ (pc = "call" /\ x.kind # "array") =>
              /\ Dimension(x') = Dimension(x)
              /\ \A d \in 0..(Dimension(x) - 1) :
                     /\ VecGet(x', d) =
                            IF x.kind = "column" THEN Get(B', 0, d) ELSE Get(B', d, 0)
                     /\ VecGet(x', d) = A'.array[Place(d)]
              /\ (at'.on = "x" /\ at'.d \in 0..(Dimension(x) - 1)) =>
                     /\ err' = "none"
                     /\ op' = "Get" => value' = A.array[Place(at'.d)]
                     /\ op' = "Set" =>
                            A' = [A EXCEPT !.array[Place(at'.d)] = value']]_vars

\* Two Sets, the second through a row view of the second row of A at d: A
\* holds its value at (d, 1), and the view and A read the value of the first
\* Set at one entry.
VectorViewsAliasWitness ==
    /\ pc = "call"
    /\ calls = 2
    /\ x.kind = "row"
    /\ B.kind = "slice"
    /\ B.outLo = 1
    /\ op = "Set"
    /\ at.on = "x"
    /\ at.d \in 0..(Dimension(x) - 1)
    /\ Get(A, B.inLo + at.d, 1) = FromInt(2)
    /\ \E d \in 0..(Dimension(x) - 1) :
           /\ VecGet(x, d) = FromInt(1)
           /\ Get(A, B.inLo + d, 1) = FromInt(1)

\* C20: the matrix of NewArrayMatrix(ins, outs) and the vector of
\* NewArrayVector(dim) begin with every entry 0; a Set within the shape or
\* the dimension leaves these as they are and changes the one entry it names,
\* so that a Get returns what the last Set at its index wrote, or 0.
NewStorageKeepsSets ==
    /\ [](calls = 0 =>
             /\ IsZero(A)
             /\ (pc = "call" /\ x.kind = "array") =>
                    \A d \in 0..(Dimension(x) - 1) : ~FNonZero(VecGet(x, d)))
    /\ [][pc = "call" =>
             /\ Shape(A') = Shape(A)
             /\ Dimension(x') = Dimension(x)
             /\ (at'.on = "A" /\ InRange(A, at')) =>
                    /\ err' = "none"
                    /\ op' = "Get" => value' = Get(A, at'.in, at'.out) /\ A' = A
                    /\ op' = "Set" => OneEntryWritten(A, A', at'.in, at'.out)
                    /\ x.kind = "array" => x' = x
             /\ (x.kind = "array" /\ at'.on = "x"
                     /\ at'.d \in 0..(Dimension(x) - 1)) =>
                    /\ err' = "none"
                    /\ A' = A
                    /\ op' = "Get" => value' = VecGet(x, at'.d) /\ x' = x
                    /\ op' = "Set" =>
                           \A d \in 0..(Dimension(x) - 1) :
                               VecGet(x', d) =
                                   IF d = at'.d THEN value' ELSE VecGet(x, d)]_vars

\* A.Set(1, 2, 1) as in TestMatrix and then a Set on a new vector of
\* dimension 3: each holds the one value written to it and zeros elsewhere.
NewStorageKeepsSetsWitness ==
    /\ pc = "call"
    /\ calls = 2
    /\ x.kind = "array"
    /\ Dimension(x) = 3
    /\ op = "Set"
    /\ at.on = "x"
    /\ at.d = 1
    /\ VecGet(x, 1) = FromInt(2)
    /\ ~FNonZero(VecGet(x, 0))
    /\ ~FNonZero(VecGet(x, 2))
    /\ Shape(A) = << 2, 3 >>
    /\ \A cell \in Cells(A) :
           Get(A, cell[1], cell[2]) =
               IF cell = << 1, 2 >> THEN FromInt(1) ELSE FZero

(***************************************************************************)
(* Copy and CopyInto.  A is a dense matrix and B, the matrix copied, is A  *)
(* or a view of A.  The matrix written is dst: an array is a matrix of its *)
(* own, and a view is a view of A, so that its Sets write what B reads.    *)
(* After Copy has returned, one more Set is made through B or through the  *)
(* copy.                                                                   *)
(***************************************************************************)
\* M, its dual, its slices without the first or the last row and column.
CopyViews(M) ==
    {M, Dual(M)} \cup
    {S \in {Slice(M, 1, Shape(M)[1], 1, Shape(M)[2]),
            Slice(M, 0, Shape(M)[1] - 1, 0, Shape(M)[2] - 1)} :
        S.inLo < S.inHi /\ S.outLo < S.outHi}

InitCopy ==
    /\ pc = "call"
    /\ err = "none"
    /\ \E seed \in 0..MaxSeed :
          /\ A \in {InputMatrix(seed, ins, outs, FALSE) :
                       ins \in 1..MaxOuts, outs \in 1..MaxOuts}
          /\ B \in CopyViews(A)
          /\ \/ /\ op = "Copy"
                /\ Unused({"A", "B"})
             \/ /\ op = "CopyInto"
                /\ dst \in {InputMatrix(MaxSeed - seed, ins, outs, FALSE) :
                               ins \in 1..MaxOuts, outs \in 1..MaxOuts}
                           \cup (CopyViews(A) \ {A})
                /\ Unused({"A", "B", "dst"})

\* dst := NewArrayMatrix(ins, outs); CopyInto(A, dst); return dst
CopyCall ==
    /\ op = "Copy"
    /\ pc = "call"
    /\ dst' = Copy(B)
    /\ pc' = "done"
    /\ UNCHANGED << op, err, A, B, b, x, e, H, Q, R, tmpQ, tmpR, i, X, y, theta,
          at, value, calls >>

CopyIntoCall ==
    /\ op = "CopyInto"
    /\ pc = "call"
    /\ \E copied \in {IF dst.kind = "array" THEN CopyInto(B, dst)
                      ELSE CopyIntoAliased(B, dst)} :
           /\ err' = copied.err
           /\ dst' = copied.dst
           /\ A' = IF dst.kind = "array" THEN A ELSE Underlying(copied.dst)
    /\ B' = Rebase(B, A')
    /\ pc' = "done"
    /\ UNCHANGED << op, b, x, e, H, Q, R, tmpQ, tmpR, i, X, y, theta,
          at, value, calls >>

\* B.Set(in, out, value) or dst.Set(in, out, value) after Copy has returned,
\* with a value that is no entry of the inputs.
SetAfterCopy ==
    /\ op = "Copy"
    /\ pc = "done"
    /\ \E name \in {"B", "dst"} :
           \E cell \in Cells(B) :
               /\ at' = [on |-> name, in |-> cell[1], out |-> cell[2]]
               /\ \E written \in {Set(IF name = "B" THEN B
                                      ELSE IF dst.kind = "array" THEN dst
                                      ELSE Rebase(dst, A),
                                      cell[1], cell[2], FromInt(MaxEntry + 1))} :
                      /\ A' = IF name = "B" \/ dst.kind # "array"
                              THEN Underlying(written) ELSE A
                      /\ dst' = IF dst.kind # "array" THEN Rebase(dst, A')
                                ELSE IF name = "dst" THEN written ELSE dst
    /\ B' = Rebase(B, A')
    /\ value' = FromInt(MaxEntry + 1)
    /\ calls' = calls + 1
    /\ pc' = "set"
    /\ UNCHANGED << op, err, b, x, e, H, Q, R, tmpQ, tmpR, i, X, y, theta >>

NextCopy == CopyCall \/ CopyIntoCall \/ SetAfterCopy

SpecCopy == InitCopy /\ [][NextCopy]_vars

\* Copy returns a new dense matrix with the shape and the entries of B, and
\* a Set on B or on the copy after it leaves the other as it was.
CopyIsNew ==
    /\ (pc = "call" /\ op = "Copy") =>
           /\ err' = "none"
           /\ dst'.kind = "array"
           /\ Shape(dst') = Shape(B)
           /\ \A cell \in Cells(B) :
                  Get(dst', cell[1], cell[2]) = Get(B, cell[1], cell[2])
           /\ A' = A
           /\ B' = B
    /\ (pc = "done" /\ op = "Copy") =>
           /\ at'.on = "B" =>
                  /\ dst' = dst
                  /\ Get(B', at'.in, at'.out) = value'
           /\ at'.on = "dst" =>
                  /\ A' = A
                  /\ B' = B
                  /\ Get(dst', at'.in, at'.out) = value'

\* CopyInto has panicked and has written nothing.
CopyIntoMismatch ==
    /\ err' = "dimension mismatch"
    /\ dst' = dst
    /\ A' = A

\* CopyInto has made dst equal to B in every entry, and B is as it was.
CopyIntoEqual ==
    /\ err' = "none"
    /\ Shape(dst') = Shape(dst)
    /\ \A cell \in Cells(B) :
           /\ Get(dst', cell[1], cell[2]) = Get(B, cell[1], cell[2])
           /\ Get(B', cell[1], cell[2]) = Get(B, cell[1], cell[2])

\* dst writes an entry that B reads at another index.
CopyOverlaps ==
    /\ dst.kind # "array"
    /\ \E from \in Cells(B) : \E to \in Cells(dst) :
           /\ from # to
           /\ Offset(B, from[1], from[2]) = Offset(dst, to[1], to[2])

\* C18: Copy(A) returns a new dense matrix with the shape and the entries of
\* A that shares no storage with A; CopyInto(src, dst) fails with a shape
\* mismatch and leaves dst as it was when the shapes differ, and otherwise
\* makes dst equal to src in every entry and does not change src.
CopyCopiesAlways ==
    [][/\ CopyIsNew
       /\ (pc = "call" /\ op = "CopyInto") =>
              IF Shape(dst) # Shape(B) THEN CopyIntoMismatch ELSE CopyIntoEqual]_vars

\* C18, with the condition it holds under: CopyInto makes dst equal to src
\* and does not change src when no entry that dst writes is an entry that src
\* reads at another index, as when dst shares no storage with src.
CopyCopies ==
    [][/\ CopyIsNew
       /\ (pc = "call" /\ op = "CopyInto") =>
              IF Shape(dst) # Shape(B) THEN CopyIntoMismatch
              ELSE ~CopyOverlaps => CopyIntoEqual]_vars

\* CopyInto has copied the dual of a matrix of shape (2, 3), with an entry
\* that is not 0, into a matrix of its own.
CopyCopiesWitness ==
    /\ op = "CopyInto"
    /\ pc = "done"
    /\ err = "none"
    /\ B.kind = "dual"
    /\ Shape(B) = << 3, 2 >>
    /\ dst.kind = "array"
    /\ \A cell \in Cells(B) : Get(dst, cell[1], cell[2]) = Get(B, cell[1], cell[2])
    /\ \E cell \in Cells(B) : FNonZero(Get(dst, cell[1], cell[2]))

(***************************************************************************)
(* Identity and IdentityInto.  The matrix that IdentityInto writes is a    *)
(* dense matrix A with entries, its dual, or a slice of it.                *)
(***************************************************************************)
InitIdentity ==
    /\ pc = "call"
    /\ err = "none"
    /\ \/ /\ op = "Identity"
          /\ Unused({})
       \/ /\ op = "IdentityInto"
          /\ A \in {InputMatrix(seed, ins, outs, FALSE) :
                       seed \in 0..MaxSeed, ins \in 1..MaxOuts, outs \in 1..MaxOuts}
          /\ dst \in Slices(A) \cup {A, Dual(A)}
          /\ Unused({"A", "dst"})

IdentityCall ==
    /\ op = "Identity"
    /\ pc = "call"
    /\ \E dim \in 0..MaxOuts :
           /\ at' = [dim |-> dim]
           /\ dst' = Identity(dim)
    /\ pc' = "done"
    /\ UNCHANGED << op, err, A, B, b, x, e, H, Q, R, tmpQ, tmpR, i, X, y, theta,
          value, calls >>

IdentityIntoCall ==
    /\ op = "IdentityInto"
    /\ pc = "call"
    /\ \E made \in {IdentityInto(dst)} :
           /\ err' = made.err
           /\ dst' = made.dst
           /\ A' = Underlying(made.dst)
    /\ pc' = "done"
    /\ UNCHANGED << op, B, b, x, e, H, Q, R, tmpQ, tmpR, i, X, y, theta,
          at, value, calls >>

NextIdentity == IdentityCall \/ IdentityIntoCall

SpecIdentity == InitIdentity /\ [][NextIdentity]_vars

\* M.Get(i, o) is 1 where i = o and 0 elsewhere.
IdentityPattern(M) ==
    \A cell \in Cells(M) :
        Get(M, cell[1], cell[2]) = IF cell[1] = cell[2] THEN FromInt(1) ELSE FZero

\* C19: Identity(n) returns an n by n matrix with Get(i, o) = 1 where i = o
\* and 0 elsewhere; IdentityInto(dst) fails on a dst that is not square and
\* writes nothing, and on a square dst, dense or a slice, sets every entry to
\* that pattern whatever dst held, and changes nothing outside dst.
IdentityIsIdentity ==
    [][/\ (pc = "call" /\ op = "Identity") =>
              /\ err' = "none"
              /\ dst'.kind = "array"
              /\ Shape(dst') = << at'.dim, at'.dim >>
              /\ IdentityPattern(dst')
       /\ (pc = "call" /\ op = "IdentityInto") =>
              IF Shape(dst)[1] # Shape(dst)[2]
              THEN /\ err' # "none"
                   /\ dst' = dst
                   /\ A' = A
              ELSE /\ err' = "none"
                   /\ Shape(dst') = Shape(dst)
                   /\ IdentityPattern(dst')
                   /\ Shape(A') = Shape(A)
                   /\ \A slot \in DOMAIN A.array :
                          (\A cell \in Cells(dst) :
                               Offset(dst, cell[1], cell[2]) # slot) =>
                              A'.array[slot] = A.array[slot]]_vars

\* IdentityInto has written the trailing (2, 2) slice of a (3, 3) matrix
\* whose first row and column hold an entry that is not 0.
IdentityIsIdentityWitness ==
    /\ op = "IdentityInto"
    /\ pc = "done"
    /\ err = "none"
    /\ dst.kind = "slice"
    /\ dst.inLo = 1
    /\ dst.outLo = 1
    /\ Shape(dst) = << 2, 2 >>
    /\ Shape(A) = << 3, 3 >>
    /\ IdentityPattern(dst)
    /\ FNonZero(Get(A, 0, 0))
    /\ FNonZero(Get(A, 2, 0))
    /\ Get(A, 1, 1) = FromInt(1)
    /\ Get(A, 2, 1) = FZero

(***************************************************************************)
(* The loop of DecomposeIntoQR, pass by pass.                              *)
(***************************************************************************)
\* A pass of the loop: column i of tmpR is looked at, and i goes up by one.
DecomposePass == pc = "loop" /\ i' = i + 1

\* The x that the pass for column i hands to HouseholderInto.
ColumnVector == VectorFromColumn(Slice(tmpR, i, i + 1, i, Shape(A)[2]))

\* The u of HouseholderInto for that x: x + x0sign * xmag * e.
ShiftedVector(v) ==
    ReflectionAxis(v, BasisVector(Dimension(v), 0), L2Norm(v), Sign(VecGet(v, 0)),
                   Dimension(v))

ZeroColumnSkipped ==
    /\ [][(DecomposePass /\ \A out \in (i + 1)..(Shape(A)[2] - 1) :
                                ~FNonZero(Get(tmpR, i, out))) =>
              /\ H' = NoMatrix
              /\ tmpQ' = tmpQ
              /\ tmpR' = tmpR]_vars
    /\ []((DecomposeQRDone /\ ExactlyUpperTriangular(A)) =>
              /\ Q = Identity(Shape(A)[2])
              /\ Shape(R) = Shape(A)
              /\ \A cell \in Cells(A) :
                     Get(R, cell[1], cell[2]) = Get(A, cell[1], cell[2]))

\* DecomposeQR has returned for an upper triangular A of three columns
\* with nonzero entries on and above the diagonal, having made no reflection.
ZeroColumnSkippedWitness ==
    /\ DecomposeQRDone
    /\ Shape(A) = << 3, 3 >>
    /\ ExactlyUpperTriangular(A)
    /\ FNonZero(Get(A, 0, 0))
    /\ FNonZero(Get(A, 2, 1))
    /\ H = NoMatrix
    /\ Q = Identity(3)
    /\ R = A

\* DecomposeQR run as the program runs it: a call that has begun goes on
\* until it returns.  This is WF_vars(NextDecomposeQR), with the states in
\* which a step is enabled written out: those of a call that has not ended.
FairDecomposeQR ==
    SpecDecomposeQR /\ ([]<>(pc = "done") \/ []<><<NextDecomposeQR>>_vars)

\* The entries below the diagonal in the columns before column upTo are
\* zero within 1e-9.
ZeroBelowDiagonal(M, upTo) ==
    \A col \in 0..(upTo - 1) : \A out \in (col + 1)..(Shape(M)[2] - 1) :
        AtMost(FAbs(Get(M, col, out)), E9)

ReflectionInTrailingBlock ==
    [][(DecomposePass /\ H' # NoMatrix) =>
          /\ Shape(H') = << Shape(A)[2], Shape(A)[2] >>
          /\ \A cell \in Cells(H') :
                 (cell[1] < i \/ cell[2] < i) =>
                     Get(H', cell[1], cell[2])
                         = FromInt(IF cell[1] = cell[2] THEN 1 ELSE 0)
          /\ \A cell \in Cells(tmpR) :
                 cell[2] < i =>
                     Get(tmpR', cell[1], cell[2]) = Get(tmpR, cell[1], cell[2])]_vars

\* The pass for the second column has made a reflection that is not the
\* identity in its trailing block, for an R whose first row is not zero.
ReflectionInTrailingBlockWitness ==
    /\ op = "DecomposeQR"
    /\ pc = "loop"
    /\ i = 2
    /\ Shape(H) = << 3, 3 >>
    /\ Get(H, 0, 0) = FromInt(1)
    /\ Get(H, 1, 1) # FromInt(1)
    /\ FNonZero(Get(H, 1, 2))
    /\ \A col \in 0..(Shape(tmpR)[1] - 1) : FNonZero(Get(tmpR, col, 0))

InitStorage == InitDecomposeQR \/ InitOrdinaryLeastSquares

\* M as it reads once the matrix it may be a view of has become base.
Seen(M, base) == IF M.kind = "array" THEN M ELSE Rebase(M, base)

\* One Set, after DecomposeQR has returned, on the A it was given or on the
\* Q or the R it returned.
SetAfterDecompose ==
    /\ op = "DecomposeQR"
    /\ pc = "done"
    /\ err = "none"
    /\ \E name \in {"A", "Q", "R"} :
           \E on \in {IF name = "A" THEN A ELSE IF name = "Q" THEN Q ELSE R} :
               \E cell \in Cells(on) :
                   /\ at' = [on |-> name, in |-> cell[1], out |-> cell[2]]
                   /\ \E written \in {Set(on, cell[1], cell[2],
                                           FromInt(MaxEntry + 1))} :
                          /\ A' = IF name = "A" \/ on.kind # "array"
                                  THEN Underlying(written) ELSE A
                          /\ Q' = IF name = "Q" /\ Q.kind = "array" THEN written
                                  ELSE Seen(Q, A')
                          /\ R' = IF name = "R" /\ R.kind = "array" THEN written
                                  ELSE Seen(R, A')
    /\ value' = FromInt(MaxEntry + 1)
    /\ calls' = calls + 1
    /\ pc' = "set"
    /\ UNCHANGED << op, err, B, dst, b, x, e, H, tmpQ, tmpR, i, X, y, theta >>

NextStorage ==
    \/ DecomposeBegin
    \/ OrdinaryLeastSquaresBegin
    \/ DecomposeStep
    \/ DecomposeEnd
    \/ OrdinaryLeastSquaresSolve
    \/ SetAfterDecompose

SpecStorage == InitStorage /\ [][NextStorage]_vars

\* C27: DecomposeQR(A) and OrdinaryLeastSquares(X, y) do not write to what
\* they are given, and the Q and R that DecomposeQR returns share no storage
\* with A: a later Set on Q or R leaves A as it was, and a later Set on A
\* leaves Q and R as they were, also when every column was skipped.
InputsKeptApart ==
    [][/\ pc \in {"call", "loop", "solve"} =>
             /\ A' = IF pc = "call" /\ op = "OrdinaryLeastSquares" THEN X ELSE A
             /\ X' = X
             /\ y' = y
       /\ (pc = "done" /\ pc' = "set") =>
             /\ at'.on = "A" =>
                    (Q' = Q /\ R' = R /\ Get(A', at'.in, at'.out) = value')
             /\ at'.on = "Q" =>
                    (A' = A /\ R' = R /\ Get(Q', at'.in, at'.out) = value')
             /\ at'.on = "R" =>
                    (A' = A /\ Q' = Q /\ Get(R', at'.in, at'.out) = value')]_vars

\* DecomposeQR has skipped every column of an upper triangular A, so that
\* the running R was the slice of A to the end, and an entry of the R it
\* returned has been set: A still holds what it held there.
InputsKeptApartWitness ==
    /\ op = "DecomposeQR"
    /\ pc = "set"
    /\ at.on = "R"
    /\ Shape(A) = << 2, 3 >>
    /\ tmpR.kind = "slice"
    /\ H = NoMatrix
    /\ Get(R, at.in, at.out) = value
    /\ Get(A, at.in, at.out) # value
    /\ \E cell \in Cells(A) : FNonZero(Get(A, cell[1], cell[2]))

(***************************************************************************)
(* The operations that write into a destination they are given, each       *)
(* called with destinations of every shape.                                *)
(***************************************************************************)
Arrays(seed) ==
    {InputMatrix(seed, ins, outs, FALSE) : ins \in 1..MaxOuts, outs \in 1..MaxOuts}

Vectors(seed) == {InputVector(seed, dim) : dim \in 1..MaxOuts}

InitInto ==
    /\ pc = "call"
    /\ err = "none"
    /\ \E seed \in {1, MaxSeed - 2} :
          \/ /\ op = "CopyInto"
             /\ A \in Arrays(seed)
             /\ B = A
             /\ dst \in Arrays(seed + 2)
             /\ Unused({"A", "B", "dst"})
          \/ /\ op = "IdentityInto"
             /\ A \in Arrays(seed)
             /\ dst = A
             /\ Unused({"A", "dst"})
          \/ /\ op = "ComposeInto"
             /\ A \in Arrays(seed)
             /\ B \in Arrays(seed + 1)
             /\ dst \in Arrays(seed + 2)
             /\ Unused({"A", "B", "dst"})
          \/ /\ op = "ApplyToMatrixInto"
             /\ A \in Arrays(seed)
             /\ X \in Arrays(seed + 1)
             /\ dst \in Arrays(seed + 2)
             /\ Unused({"A", "X", "dst"})
          \/ /\ op = "ApplyToVectorInto"
             /\ A \in Arrays(seed)
             /\ x \in Vectors(seed + 1)
             /\ dst \in Vectors(seed + 2)
             /\ Unused({"A", "x", "dst"})
          \/ /\ op = "NormalizeInto"
             /\ x \in Vectors(seed)
             /\ dst \in Vectors(seed + 2)
             /\ Unused({"x", "dst"})
          \/ /\ op = "HouseholderInto"
             /\ x \in Vectors(seed)
             /\ e \in {BasisVector(dim, 0) : dim \in 1..MaxOuts}
             /\ H \in Arrays(seed + 2)
             /\ Unused({"x", "e", "H"})
          \/ /\ op = "FindInputToUpperTriangularInto"
             /\ A \in {InputMatrix(seed, ins, outs, TRUE) :
                          ins \in 1..MaxOuts, outs \in 1..MaxOuts}
             /\ b \in Vectors(seed + 1)
             /\ x \in Vectors(seed + 2)
             /\ Unused({"A", "b", "x"})
          \/ /\ op = "DecomposeIntoQR"
             /\ A \in {M \in Arrays(seed) : M.outs >= M.ins}
             /\ Q \in Arrays(seed + 1)
             /\ R \in Arrays(seed + 2)
             /\ Unused({"A", "Q", "R"})

ComposeIntoCall ==
    /\ op = "ComposeInto"
    /\ pc = "call"
    /\ \E composed \in {ComposeInto(A, B, dst)} :
           /\ err' = composed.err
           /\ dst' = composed.dst
    /\ pc' = "done"
    /\ UNCHANGED << op, A, B, b, x, e, H, Q, R, tmpQ, tmpR, i, X, y, theta,
          at, value, calls >>

NormalizeIntoCall ==
    /\ op = "NormalizeInto"
    /\ pc = "call"
    /\ \E normalized \in {NormalizeInto(x, dst)} :
           /\ err' = normalized.err
           /\ dst' = normalized.dst
    /\ pc' = "done"
    /\ UNCHANGED << op, A, B, b, x, e, H, Q, R, tmpQ, tmpR, i, X, y, theta,
          at, value, calls >>

\* DecomposeIntoQR(A, Q, R) up to its loop, with the Q and R it is given.
DecomposeIntoBegin ==
    /\ op = "DecomposeIntoQR"
    /\ pc = "call"
    /\ err' = DecomposeShapeCheck(A, Q, R)
    /\ IF err' = "none"
       THEN /\ tmpQ' = Identity(Shape(A)[2])
            /\ tmpR' = Slice(A, 0, Shape(A)[1], 0, Shape(A)[2])
            /\ i' = 0
            /\ pc' = "loop"
       ELSE /\ pc' = "done"
            /\ UNCHANGED << tmpQ, tmpR, i >>
    /\ UNCHANGED << op, A, B, dst, b, x, e, H, Q, R, X, y, theta,
          at, value, calls >>

NextInto ==
    \/ CopyIntoCall
    \/ IdentityIntoCall
    \/ ComposeIntoCall
    \/ ApplyToMatrixIntoCall
    \/ ApplyToVectorIntoCall
    \/ NormalizeIntoCall
    \/ HouseholderIntoCall
    \/ FindInputToUpperTriangularIntoCall
    \/ DecomposeIntoBegin
    \/ DecomposeStep
    \/ DecomposeEnd

SpecInto == InitInto /\ [][NextInto]_vars

\* The destination of the call has another shape or dimension than the
\* result of the operation.
IntoMismatch ==
    CASE op = "CopyInto" -> Shape(dst) # Shape(B)
      [] op = "IdentityInto" -> Shape(dst)[1] # Shape(dst)[2]
      [] op = "ComposeInto" -> Shape(dst) # << Shape(A)[1], Shape(B)[2] >>
      [] op = "ApplyToMatrixInto" -> Shape(dst) # << Shape(X)[1], Shape(A)[2] >>
      [] op = "ApplyToVectorInto" -> Dimension(dst) # Shape(A)[2]
      [] op = "NormalizeInto" -> Dimension(dst) # Dimension(x)
      [] op = "HouseholderInto" -> Shape(H) # << Dimension(x), Dimension(x) >>
      [] op = "FindInputToUpperTriangularInto" -> Dimension(x) # Shape(A)[1]
      [] op = "DecomposeIntoQR" ->
             Shape(Q) # << Shape(A)[2], Shape(A)[2] >> \/ Shape(R) # Shape(A)

\* The call has failed and has written to none of its arguments.
IntoRefused ==
    /\ err' # "none"
    /\ dst' = dst
    /\ H' = H
    /\ x' = x
    /\ Q' = Q
    /\ R' = R

\* C28: every operation that writes into a destination it is given (CopyInto,
\* IdentityInto, ComposeInto, ApplyToMatrixInto, ApplyToVectorInto,
\* NormalizeInto, HouseholderInto, FindInputToUpperTriangularInto,
\* DecomposeIntoQR) fails when the shape or dimension of the destination is
\* not that of the result, before it writes any entry of the destination.
IntoChecksDestination ==
    [][(pc = "call" /\ IntoMismatch) => IntoRefused]_vars

\* The same for the operations other than ComposeInto and ApplyToMatrixInto.
IntoChecksDestinationElsewhere ==
    [][(pc = "call" /\ IntoMismatch /\ op \notin {"ComposeInto", "ApplyToMatrixInto"})
          => IntoRefused]_vars

(***************************************************************************)
(* What FindInputToUpperTriangularInto leaves behind when it fails, and    *)
(* what its result depends on.                                             *)
(***************************************************************************)
\* The diagonal index at which back substitution fails: the last one whose
\* entry is below 1e-9 in magnitude.
FailsAt(o) ==
    /\ FLess(FAbs(Get(A, o, o)), E9)
    /\ \A k \in (o + 1)..(Shape(A)[1] - 1) : ~FLess(FAbs(Get(A, k, k)), E9)

\* (b(o) - the sum over in > o of v(in) A(in, o)) / A(o, o): the value back
\* substitution stores at index o when the later entries are those of v.
SubstitutedFrom(v, o) ==
    FDiv(FSub(VecGet(b, o),
              SumLoop(LAMBDA in : FMul(VecGet(v, in), Get(A, in, o)),
                      o + 1, Shape(A)[1], FZero)),
         Get(A, o, o))

\* C29: when FindInputToUpperTriangularInto(A, b, x) fails the test of the
\* pivot at diagonal index o, x has been written in part: the entries
\* x(o+1..ins-1) hold the solved values and the entries x(0..o) hold what
\* they held before; and on every failure A and b are as they were.
FailureLeavesPart ==
    [][(op = "FindInputToUpperTriangularInto" /\ pc = "call" /\ err' # "none") =>
          /\ A' = A
          /\ b' = b
          /\ Dimension(x') = Dimension(x)
          /\ err' = SingularError =>
                 \A o \in 0..(Shape(A)[1] - 1) :
                     FailsAt(o) =>
                         /\ \A k \in 0..o : VecGet(x', k) = VecGet(x, k)
                         /\ \A k \in (o + 1)..(Shape(A)[1] - 1) :
                                VecGet(x', k) = SubstitutedFrom(x', k)]_vars

\* The call has failed at the second of three pivots: x(0) and x(1) are the
\* caller's, x(2) is the solved value and differs from the caller's.
FailureLeavesPartWitness ==
    /\ op = "FindInputToUpperTriangularInto"
    /\ pc = "done"
    /\ err = SingularError
    /\ Shape(A)[1] = 3
    /\ FailsAt(1)
    /\ VecGet(x, 0) = VecGet(InputVector(4, 3), 0)
    /\ VecGet(x, 1) = VecGet(InputVector(4, 3), 1)
    /\ VecGet(x, 2) # VecGet(InputVector(4, 3), 2)
    /\ FNonZero(VecGet(x, 2))
    /\ VecGet(x, 2) = SubstitutedFrom(x, 2)

\* The values given to the entries of b from ins on.
TailValues == {-1, 0, 1}

\* The vectors that differ from v at most in the entries from ins on.
TailVariants(v, ins) ==
    {[kind |-> "array",
      array |-> [n \in 1..Dimension(v) |->
                    IF n <= ins THEN VecGet(v, n - 1) ELSE FromInt(tail[n])]] :
        tail \in [(ins + 1)..Dimension(v) -> TailValues]}

\* The first ins entries of v, as a vector of its own.
LeadingEntries(v, ins) ==
    [kind |-> "array", array |-> [n \in 1..ins |-> VecGet(v, n - 1)]]

\* The top ins-by-ins block of M.
TopBlock(M) == Slice(M, 0, Shape(M)[1], 0, Shape(M)[1])

\* FindInputToUpperTriangular(A, b) has ended for an A of more outs than ins
\* and a b of dimension outs.
FindInputTaller ==
    /\ op = "FindInputToUpperTriangular"
    /\ pc = "done"
    /\ Shape(A)[2] > Shape(A)[1]
    /\ Dimension(b) = Shape(A)[2]

\* C30: for A of shape (ins, outs) with outs > ins, the result of
\* FindInputToUpperTriangular(A, b) is the result for every b that differs
\* only in entries o >= ins, and the x returned is the one returned for the
\* top ins-by-ins block of A and b(0..ins-1) alone; x solves row o for every
\* o < ins (x(o) is the quotient of back substitution and row o of A x
\* agrees with b(o) to rounding, within 1e-9 of the magnitude of the row's
\* terms); and whatever b holds from ins on, the call returns when A is
\* exactly upper triangular with no diagonal entry below 1e-9.
FindInputIgnoresTail ==
    FindInputTaller =>
        /\ \A b2 \in TailVariants(b, Shape(A)[1]) :
               /\ FindInputToUpperTriangular(A, b2).err = err
               /\ err = "none" => FindInputToUpperTriangular(A, b2).x = x
        /\ err = "none" =>
               /\ x = FindInputToUpperTriangular(
                          TopBlock(A), LeadingEntries(b, Shape(A)[1])).x
               /\ \A o \in 0..(Shape(A)[1] - 1) : VecGet(x, o) = Substituted(o)
               /\ ResidualWithinScaled(ApplyToVector(A, x).dst,
                                       0..(Shape(A)[1] - 1))
        /\ (ExactlyUpperTriangular(A) /\ ~SmallDiagonal(A)) => err = "none"

\* FindInputToUpperTriangular has returned x for two ins and three outs, with
\* a nonzero b(2), which no x can match, and nonzero entries of A and x.
FindInputIgnoresTailWitness ==
    /\ FindInputTaller
    /\ err = "none"
    /\ Shape(A) = << 2, 3 >>
    /\ FNonZero(VecGet(b, 2))
    /\ FNonZero(Get(A, 1, 0))
    /\ FNonZero(VecGet(x, 0))
    /\ FNonZero(VecGet(x, 1))
    /\ ~FNonZero(VecGet(ApplyToVector(A, x).dst, 2))

(***************************************************************************)
(* SolveUpperTriangular, the solver of linear.go.                          *)
(***************************************************************************)
InitSolveUpperTriangular ==
    /\ op = "SolveUpperTriangular"
    /\ pc = "call"
    /\ err = "none"
    /\ A \in FindInputMatrices
    /\ b \in {InputVector(seed, dim) : seed \in {1, 2, 3}, dim \in 1..MaxOuts}
    /\ Unused({"A", "b"})

SolveUpperTriangularCall ==
    /\ op = "SolveUpperTriangular"
    /\ pc = "call"
    /\ \E found \in {SolveUpperTriangular(A, b)} :
           /\ err' = found.err
           /\ x' = IF found.err = "none" THEN found.x ELSE NoVector
    /\ pc' = "done"
    /\ UNCHANGED << op, A, B, dst, b, e, H, Q, R, tmpQ, tmpR, i, X, y, theta,
          at, value, calls >>

NextSolveUpperTriangular == SolveUpperTriangularCall

SpecSolveUpperTriangular ==
    InitSolveUpperTriangular /\ [][NextSolveUpperTriangular]_vars

\* C25: SolveUpperTriangular(A, b) of linear.go takes a pivot for singular
\* exactly when its magnitude is below 1e-9: for an exactly upper triangular
\* A with outs >= ins and b of dimension outs it fails with the singular
\* error when some |A(o,o)| < 1e-9, and with every |A(o,o)| >= 1e-9, of
\* either sign, it returns x.
SolveUpperTriangularSingular ==
    (/\ op = "SolveUpperTriangular"
     /\ pc = "done"
     /\ Shape(A)[2] >= Shape(A)[1]
     /\ Dimension(b) = Shape(A)[2]
     /\ ExactlyUpperTriangular(A)) =>
        /\ err = IF SmallDiagonal(A) THEN SingularError ELSE "none"
        /\ err = "none" => Dimension(x) = Shape(A)[1]
====
